---- MODULE Spec2Model ----
(***************************************************************************)
(* State-machine model of the ABQ data entry application:                  *)
(*   - models.py       CSVModel (the record store) and SettingsModel       *)
(*   - widgets.py      the validated input widgets                         *)
(*   - views.py        DataRecordForm                                      *)
(*   - application.py  Application                                         *)
(*                                                                         *)
(* Texts are sequences of one-character strings, so that str(), lower(),   *)
(* newline translation and parsing are computed and not assumed.           *)
(* Python values are tagged records [t, v].                                *)
(***************************************************************************)
EXTENDS Integers, Sequences, FiniteSets, TLC

(***************************************************************************)
(* Bounds of the model                                                     *)
(***************************************************************************)
\* the store operations stop appending when the file holds this many rows
MaxRows == 2
\* the key events of one run
MaxKeys == 2

(***************************************************************************)
(* Python values                                                           *)
(***************************************************************************)
MkStr(s) == [t |-> "str", v |-> s]
MkBool(b) == [t |-> "bool", v |-> b]
MkInt(n) == [t |-> "int", v |-> n]
PyNone == [t |-> "none", v |-> <<>>]
\* the list DictReader files under the key None for the cells beyond the header
MkList(s) == [t |-> "list", v |-> s]
\* a float, held in hundredths
MkFloat(h) == [t |-> "float", v |-> h]

Digit == <<"0", "1", "2", "3", "4", "5", "6", "7", "8", "9">>

RECURSIVE NatToText(_)
NatToText(n) ==
    IF n < 10 THEN <<Digit[n + 1]>>
    ELSE NatToText(n \div 10) \o <<Digit[(n % 10) + 1]>>

\* repr() of a float with at most two decimals: "1.0", "0.5", "0.25"
FloatText(h) ==
    LET a == IF h < 0 THEN 0 - h ELSE h
        frac == a % 100
    IN (IF h < 0 THEN <<"-">> ELSE <<>>) \o NatToText(a \div 100) \o <<".">> \o
       (IF frac % 10 = 0 THEN <<Digit[(frac \div 10) + 1]>>
        ELSE <<Digit[(frac \div 10) + 1], Digit[(frac % 10) + 1]>>)

\* str(value), the conversion csv.writer applies to every cell it writes
\* (None is written as the empty text)
PyStr(val) ==
    CASE val.t = "str" -> val.v
      [] val.t = "bool" -> IF val.v THEN <<"T", "r", "u", "e">>
                                    ELSE <<"F", "a", "l", "s", "e">>
      [] val.t = "int" -> IF val.v < 0 THEN <<"-">> \o NatToText(0 - val.v)
                                       ELSE NatToText(val.v)
      [] val.t = "float" -> FloatText(val.v)
      [] val.t = "none" -> <<>>

Upper == <<"A", "B", "C", "D", "E", "F", "G", "H", "I", "J", "K", "L", "M",
           "N", "O", "P", "Q", "R", "S", "T", "U", "V", "W", "X", "Y", "Z">>
Lowers == <<"a", "b", "c", "d", "e", "f", "g", "h", "i", "j", "k", "l", "m",
            "n", "o", "p", "q", "r", "s", "t", "u", "v", "w", "x", "y", "z">>

LowerChar(c) ==
    IF \E i \in 1..Len(Upper) : Upper[i] = c
    THEN Lowers[CHOOSE i \in 1..Len(Upper) : Upper[i] = c]
    ELSE c

\* str.lower()
Lower(s) == [i \in 1..Len(s) |-> LowerChar(s[i])]

\* text-mode reading (open(..., 'r') with the default newline=None):
\* "\r\n" and a lone "\r" are both read as "\n"
RECURSIVE UniversalNewlines(_)
UniversalNewlines(s) ==
    IF \A i \in 1..Len(s) : s[i] # "\r" THEN s
    ELSE IF s[1] = "\r"
         THEN IF Len(s) >= 2 /\ s[2] = "\n"
              THEN <<"\n">> \o UniversalNewlines(SubSeq(s, 3, Len(s)))
              ELSE <<"\n">> \o UniversalNewlines(Tail(s))
         ELSE <<s[1]>> \o UniversalNewlines(Tail(s))

Range(s) == {s[i] : i \in 1..Len(s)}

(***************************************************************************)
(* CSVModel.fields                                                         *)
(***************************************************************************)
Fields == <<"Date", "Time", "Technician", "Lab", "Plot", "Seed Sample",
            "Humidity", "Light", "Temperature", "Equipment Fault", "Plants",
            "Blossoms", "Fruit", "Min Height", "Max Height", "Med Height",
            "Notes">>

FieldSet == Range(Fields)

FieldType ==
    [k \in FieldSet |->
        CASE k = "Date" -> "iso_date_string"
          [] k \in {"Time", "Plot"} -> "string_list"
          [] k \in {"Technician", "Seed Sample"} -> "string"
          [] k = "Lab" -> "short_string_list"
          [] k \in {"Humidity", "Light", "Temperature",
                    "Min Height", "Max Height", "Med Height"} -> "decimal"
          [] k = "Equipment Fault" -> "boolean"
          [] k \in {"Plants", "Blossoms", "Fruit"} -> "integer"
          [] k = "Notes" -> "long_string"]

\* bool_fields of get_all_records: the keys whose type is FT.boolean
BoolFields == {k \in FieldSet : FieldType[k] = "boolean"}

\* trues with one of its words left out
TruesWithoutYes == {<<"t", "r", "u", "e">>, <<"1">>}

\* trues of get_all_records
Trues == {<<"t", "r", "u", "e">>, <<"y", "e", "s">>, <<"1">>}

(***************************************************************************)
(* The csv module, at the level of lines and cells.  A file is             *)
(* [exists, head, rows]: head holds the first line, if there is one, as a  *)
(* sequence of column names; rows holds the lines after it, each a         *)
(* sequence of cells, a cell being a text.                                 *)
(***************************************************************************)
NoFile == [exists |-> FALSE, head |-> <<>>, rows |-> <<>>]
EmptyFile == [exists |-> TRUE, head |-> <<>>, rows |-> <<>>]
MkFile(header, rows) == [exists |-> TRUE, head |-> <<header>>, rows |-> rows]

\* the key None, under which DictReader files the cells beyond the header
NoneKey == "<None>"

Ok(val) == [err |-> "", val |-> val]
Err(name) == [err |-> name, val |-> <<>>]

\* the text of each field key
Spelling ==
    [k \in FieldSet |->
        CASE
             k = "Date" -> <<"D", "a", "t", "e">>
          [] k = "Time" -> <<"T", "i", "m", "e">>
          [] k = "Technician" -> <<"T", "e", "c", "h", "n", "i", "c", "i", "a", "n">>
          [] k = "Lab" -> <<"L", "a", "b">>
          [] k = "Plot" -> <<"P", "l", "o", "t">>
          [] k = "Seed Sample" -> <<"S", "e", "e", "d", " ", "S", "a", "m", "p", "l", "e">>
          [] k = "Humidity" -> <<"H", "u", "m", "i", "d", "i", "t", "y">>
          [] k = "Light" -> <<"L", "i", "g", "h", "t">>
          [] k = "Temperature" -> <<"T", "e", "m", "p", "e", "r", "a", "t", "u", "r", "e">>
          [] k = "Equipment Fault" -> <<"E", "q", "u", "i", "p", "m", "e", "n", "t", " ", "F", "a", "u", "l", "t">>
          [] k = "Plants" -> <<"P", "l", "a", "n", "t", "s">>
          [] k = "Blossoms" -> <<"B", "l", "o", "s", "s", "o", "m", "s">>
          [] k = "Fruit" -> <<"F", "r", "u", "i", "t">>
          [] k = "Min Height" -> <<"M", "i", "n", " ", "H", "e", "i", "g", "h", "t">>
          [] k = "Max Height" -> <<"M", "a", "x", " ", "H", "e", "i", "g", "h", "t">>
          [] k = "Med Height" -> <<"M", "e", "d", " ", "H", "e", "i", "g", "h", "t">>
          [] k = "Notes" -> <<"N", "o", "t", "e", "s">>]

\* the column name a cell stands for when its line is read as the header
NameOf(cell) ==
    IF \E k \in FieldSet : Spelling[k] = cell
    THEN CHOOSE k \in FieldSet : Spelling[k] = cell
    ELSE ToString(cell)

\* csv.DictWriter._dict_to_list with extrasaction='raise' and restval='':
\* the cells of a row in fieldnames order; a key outside fieldnames raises
HasExtraKeys(rowdict) == ~(DOMAIN rowdict \subseteq FieldSet)

DictToList(rowdict) ==
    [i \in 1..Len(Fields) |->
        IF Fields[i] \in DOMAIN rowdict THEN PyStr(rowdict[Fields[i]])
        ELSE <<>>]

\* what open(file, 'r').readlines() hands to the reader; list(csvreader)
\* skips the blank lines
DataRows(rows) ==
    LET data == SelectSeq(rows, LAMBDA r : r # <<>>)
    IN [i \in 1..Len(data) |->
          [j \in 1..Len(data[i]) |-> UniversalNewlines(data[i][j])]]

\* csv.DictReader.__next__ for one row: dict(zip(fieldnames, row)), the cells
\* beyond the header under None, the keys beyond the row set to None
RowToDict(fieldnames, row) ==
    LET n == Len(fieldnames)
        last(k) == CHOOSE i \in 1..n :
                      /\ fieldnames[i] = k
                      /\ \A j \in (i + 1)..n : fieldnames[j] # k
    IN [k \in Range(fieldnames) \cup
              (IF Len(row) > n THEN {NoneKey} ELSE {}) |->
          IF k = NoneKey THEN MkList(SubSeq(row, n + 1, Len(row)))
          ELSE IF last(k) <= Len(row) THEN MkStr(row[last(k)]) ELSE PyNone]

ReaderRecords(fieldnames, data) ==
    [i \in 1..Len(data) |-> RowToDict(fieldnames, data[i])]

(***************************************************************************)
(* CSVModel.get_all_records                                                *)
(***************************************************************************)
IsTrue(text) == Lower(text) \in Trues

\* the comparison without lower()
NormalizeBoolsNoLower(record) ==
    [k \in DOMAIN record |->
        IF k \in BoolFields THEN MkBool(record[k].v \in Trues) ELSE record[k]]

NormalizeBools(record) ==
    [k \in DOMAIN record |->
        IF k \in BoolFields THEN MkBool(IsTrue(record[k].v)) ELSE record[k]]

\* a short row leaves None in the field: None.lower() raises
NormalizeAll(records) ==
    IF \E i \in 1..Len(records) : \E k \in BoolFields : records[i][k].t = "none"
    THEN Err("AttributeError")
    ELSE Ok([i \in 1..Len(records) |-> NormalizeBools(records[i])])

\* get_all_records without the test that the file exists
GetAllRecordsNoExistsCheck(f) ==
    IF f.head = <<>> THEN Err("TypeError")
    ELSE IF FieldSet \ Range(f.head[1]) # {} THEN Err("Exception")
    ELSE NormalizeAll(ReaderRecords(f.head[1], DataRows(f.rows)))

\* get_all_records asking for exactly the canonical keys
GetAllRecordsExactHeader(f) ==
    IF ~f.exists THEN Ok(<<>>)
    ELSE IF f.head = <<>> THEN Err("TypeError")
    ELSE IF Range(f.head[1]) # FieldSet THEN Err("Exception")
    ELSE NormalizeAll(ReaderRecords(f.head[1], DataRows(f.rows)))

GetAllRecords(f) ==
    IF ~f.exists THEN Ok(<<>>)
    \* an empty file: fieldnames is None and set(None) raises
    ELSE IF f.head = <<>> THEN Err("TypeError")
    ELSE IF FieldSet \ Range(f.head[1]) # {} THEN Err("Exception")
    ELSE NormalizeAll(ReaderRecords(f.head[1], DataRows(f.rows)))

(***************************************************************************)
(* CSVModel.get_record: Python list indexing, negative indices included    *)
(***************************************************************************)
InRange(n, rownum) == (0 - n) <= rownum /\ rownum < n
ListIndex(n, rownum) == IF rownum < 0 THEN n + rownum + 1 ELSE rownum + 1

\* indexing that returns the last record for a position past the end
IndexIntoClamped(r, rownum) ==
    IF r.err # "" THEN r
    ELSE IF Len(r.val) = 0 \/ rownum < 0 - Len(r.val) THEN Err("IndexError")
    ELSE IF rownum >= Len(r.val) THEN Ok(r.val[Len(r.val)])
    ELSE Ok(r.val[ListIndex(Len(r.val), rownum)])

IndexInto(r, rownum) ==
    IF r.err # "" THEN r
    ELSE IF ~InRange(Len(r.val), rownum) THEN Err("IndexError")
    ELSE Ok(r.val[ListIndex(Len(r.val), rownum)])

GetRecord(f, rownum) == IndexInto(GetAllRecords(f), rownum)

(***************************************************************************)
(* CSVModel.save_record: [file, err], the file left behind and the error   *)
(* raised ("" when none)                                                   *)
(***************************************************************************)
\* open(file, 'a') and the lines written: the first line written to a file
\* that has none lands where the header is read from
AppendLine(f, cells, isHeader) ==
    IF f.head = <<>>
    THEN [exists |-> TRUE,
          head |-> <<IF isHeader THEN cells
                     ELSE [i \in 1..Len(cells) |-> NameOf(cells[i])]>>,
          rows |-> f.rows]
    ELSE [exists |-> TRUE, head |-> f.head, rows |-> Append(f.rows, cells)]

\* an append that writes the header whether the file is new or not
SaveAppendAlwaysHeader(f, data) ==
    LET opened == AppendLine(f, Fields, TRUE)
    IN IF HasExtraKeys(data)
       THEN [file |-> opened, err |-> "ValueError"]
       ELSE [file |-> AppendLine(opened, DictToList(data), FALSE), err |-> ""]

\* rownum is None: open in append mode (which creates the file), the header
\* first when the file is new, then the row
SaveAppend(f, data) ==
    LET newfile == ~f.exists
        opened == IF newfile THEN AppendLine(f, Fields, TRUE)
                  ELSE [f EXCEPT !.exists = TRUE]
    IN IF HasExtraKeys(data)
       THEN [file |-> opened, err |-> "ValueError"]
       ELSE [file |-> AppendLine(opened, DictToList(data), FALSE), err |-> ""]

\* open(file, 'w') truncates; writeheader; writerows writes row after row and
\* stops at the first it cannot write
WriteAll(records) ==
    LET bad == {i \in 1..Len(records) : HasExtraKeys(records[i])}
        n == IF bad = {} THEN Len(records)
             ELSE (CHOOSE i \in bad : \A j \in bad : i <= j) - 1
    IN [file |-> MkFile(Fields, [i \in 1..n |-> DictToList(records[i])]),
        err |-> IF bad = {} THEN "" ELSE "ValueError"]

\* a replace that puts the record in front of the one at rownum
ReplaceInInserts(f, r, data, rownum) ==
    IF r.err # "" THEN [file |-> f, err |-> r.err]
    ELSE IF ~InRange(Len(r.val), rownum) THEN [file |-> f, err |-> "IndexError"]
    ELSE WriteAll(SubSeq(r.val, 1, ListIndex(Len(r.val), rownum) - 1) \o
                  <<data>> \o
                  SubSeq(r.val, ListIndex(Len(r.val), rownum), Len(r.val)))

\* rownum is given: read everything, replace, write everything
ReplaceIn(f, r, data, rownum) ==
    IF r.err # "" THEN [file |-> f, err |-> r.err]
    ELSE IF ~InRange(Len(r.val), rownum) THEN [file |-> f, err |-> "IndexError"]
    ELSE WriteAll([r.val EXCEPT ![ListIndex(Len(r.val), rownum)] = data])

SaveReplace(f, data, rownum) == ReplaceIn(f, GetAllRecords(f), data, rownum)

SaveRecord(f, data, rownum) ==
    IF rownum.t = "none" THEN SaveAppend(f, data)
    ELSE SaveReplace(f, data, rownum.v)

(***************************************************************************)
(* CSVModel.__init__: the permission check                                 *)
(***************************************************************************)
\* a check that looks at the parent directory only
PermissionDeniedParentOnly(file_exists, parent_writeable, file_writeable) ==
    ~parent_writeable

\* os.access(file, F_OK), os.access(parent, W_OK), os.access(file, W_OK)
PermissionDenied(file_exists, parent_writeable, file_writeable) ==
    \/ (~file_exists /\ ~parent_writeable)
    \/ (file_exists /\ ~file_writeable)

(***************************************************************************)
(* models.py: SettingsModel.  The settings document is the JSON file       *)
(* abq_settings.json: exists says whether it is there, parses whether      *)
(* json.load reads it, and values holds, by setting, the 'value' it gives  *)
(* (Absent where the document has none).  json.dump and json.load hand a   *)
(* boolean, a number and a text back as they were.                         *)
(***************************************************************************)
SettingKeys == {"autofill date", "autofill sheet data"}

\* SettingsModel.fields: the type tag of each setting
SettingType == [k \in SettingKeys |-> "bool"]

\* SettingsModel.fields: the value of each setting before anything is loaded
SettingDefaults == [k \in SettingKeys |-> MkBool(TRUE)]

Absent == [t |-> "absent", v |-> <<>>]

NoDocument == [exists |-> FALSE, parses |-> FALSE,
               values |-> [k \in SettingKeys |-> Absent]]
BadDocument == [exists |-> TRUE, parses |-> FALSE,
                values |-> [k \in SettingKeys |-> Absent]]
Document(values) == [exists |-> TRUE, parses |-> TRUE, values |-> values]

\* type(value).__name__
TypeName(value) == IF value.t = "none" THEN "NoneType" ELSE value.t

\* SettingsModel.load: the values after the call, or the error it raises
SettingsLoad(doc, values) ==
    IF ~doc.exists THEN [err |-> "", values |-> values]
    ELSE IF ~doc.parses THEN [err |-> "JSONDecodeError", values |-> values]
    ELSE [err |-> "",
          values |-> [k \in SettingKeys |->
                        IF doc.values[k] # Absent THEN doc.values[k]
                        ELSE values[k]]]

\* SettingsModel.save: the document json.dump writes
SettingsSave(values) == Document(values)

\* a set that stores whatever it is given under a known key
SettingsSetAnyType(values, key, value) ==
    IF key \in SettingKeys
    THEN [err |-> "", values |-> [values EXCEPT ![key] = value]]
    ELSE [err |-> "ValueError", values |-> values]

\* SettingsModel.set
SettingsSet(values, key, value) ==
    IF key \in SettingKeys /\ TypeName(value) = SettingType[key]
    THEN [err |-> "", values |-> [values EXCEPT ![key] = value]]
    ELSE [err |-> "ValueError", values |-> values]

\* the words Tcl reads as a boolean, and their unique abbreviations (a
\* number other than 0 and 1, which Tcl reads as true, is in no document
\* of the model)
TclTrue == {<<"1">>, <<"t">>, <<"t", "r">>, <<"t", "r", "u">>,
            <<"t", "r", "u", "e">>, <<"y">>, <<"y", "e">>, <<"y", "e", "s">>,
            <<"o", "n">>}
TclFalse == {<<"0">>, <<"f">>, <<"f", "a">>, <<"f", "a", "l">>,
             <<"f", "a", "l", "s">>, <<"f", "a", "l", "s", "e">>, <<"n">>,
             <<"n", "o">>, <<"o", "f">>, <<"o", "f", "f">>}

\* tk.BooleanVar(value=value): the boolean the variable holds, or the error
\* getboolean raises; without a value the variable holds False
BooleanVar(value) ==
    CASE value.t = "none" -> [err |-> "", val |-> FALSE]
      [] value.t = "bool" -> [err |-> "", val |-> value.v]
      [] value.t = "int" -> [err |-> "", val |-> value.v # 0]
      [] value.t = "str" ->
            IF Lower(value.v) \in TclTrue THEN [err |-> "", val |-> TRUE]
            ELSE IF Lower(value.v) \in TclFalse THEN [err |-> "", val |-> FALSE]
            ELSE [err |-> "TclError", val |-> FALSE]
      [] OTHER -> [err |-> "TypeError", val |-> FALSE]

(***************************************************************************)
(* State                                                                   *)
(***************************************************************************)
VARIABLES
    file,            \* the store's file on disk
    parentWritable,  \* os.access(file.parent, W_OK)
    fileWritable,    \* os.access(file, W_OK)
    store,           \* the CSVModel: "unconstructed", "ready" or "denied"
    lastOp,          \* the last store call: its name, the position given,
                     \* the error it raised and the value it returned
    track,           \* what has happened to the file since construction
    content,         \* the text of each form variable, by field
    error,           \* the error variable of each input
    disabled,        \* the inputs whose state is DISABLED
    focus,           \* the input that has the focus, or "none"
    recordsSaved,    \* Application._records_saved
    settings,        \* Application.settings
    appOp,           \* the last save or reset: the errors get_errors()
                     \* returned and how the handler ended
    keyOp,           \* the last key event of an input: what Tk passed to
                     \* _validate and the verdict of the key rule
    limits,          \* from_ and to of each spinbox, in hundredths
    document,        \* the settings document on disk
    fields,          \* SettingsModel.fields: the value of each setting
    session,         \* how far the application has got: its phase and
                     \* the error the login dialog shows
    sessionOp        \* the last login, menu command or settings call

storeVars == <<file, parentWritable, fileWritable, store, lastOp, track>>
formVars == <<content, error, disabled, focus, recordsSaved, settings, appOp>>
keyVars == <<keyOp, limits>>
sessionVars == <<document, fields, session, sessionOp>>
vars == <<storeVars, formVars, keyVars, sessionVars>>

(***************************************************************************)
(* widgets.py: the focus-out rules.  An error message is [msg, arg]: the   *)
(* fixed words and the text formatted into them.                           *)
(***************************************************************************)
NoError == [msg |-> "", arg |-> <<>>]
Message(msg, arg) == [msg |-> msg, arg |-> arg]

IsDigit(c) == \E i \in 1..Len(Digit) : Digit[i] = c
DigitVal(c) == (CHOOSE i \in 1..Len(Digit) : Digit[i] = c) - 1
AllDigits(s) == \A i \in 1..Len(s) : IsDigit(s[i])

RECURSIVE TextToNat(_)
TextToNat(s) ==
    IF s = <<>> THEN 0
    ELSE 10 * TextToNat(SubSeq(s, 1, Len(s) - 1)) + DigitVal(s[Len(s)])

\* Decimal(value) for a text of sign, digits and point, in hundredths:
\* a text without digits, with two points or with another character raises
\* InvalidOperation (the texts an input holds at focus-out have at most two
\* digits after the point: hundredths hold their values)
ParseDecimal(text) ==
    LET negative == text # <<>> /\ text[1] = "-"
        body == IF negative THEN Tail(text) ELSE text
        points == {i \in 1..Len(body) : body[i] = "."}
        point == IF points = {} THEN Len(body) + 1
                 ELSE CHOOSE i \in points : \A j \in points : i <= j
        whole == SubSeq(body, 1, point - 1)
        frac == SubSeq(body, point + 1, Len(body))
        hundredths == 100 * TextToNat(whole) +
                      (IF Len(frac) = 0 THEN 0
                       ELSE IF Len(frac) = 1 THEN 10 * DigitVal(frac[1])
                       ELSE TextToNat(frac))
    IN IF /\ Cardinality(points) <= 1
          /\ AllDigits(whole) /\ AllDigits(frac)
          /\ Len(whole) + Len(frac) > 0
          /\ Len(frac) <= 2
       THEN Ok(IF negative THEN 0 - hundredths ELSE hundredths)
       ELSE Err("InvalidOperation")

IsLeapYear(y) == (y % 4 = 0 /\ y % 100 # 0) \/ y % 400 = 0

DaysInMonth(y, m) ==
    IF m = 2 THEN (IF IsLeapYear(y) THEN 29 ELSE 28)
    ELSE IF m \in {4, 6, 9, 11} THEN 30 ELSE 31

\* datetime.strptime(text, '%Y-%m-%d') succeeds: four digits, a month and a
\* day of one or two digits, and a date of the calendar
StrptimeOk(text) ==
    \E j \in {7, 8} :
        /\ Len(text) \in (j + 1)..(j + 2)
        /\ text[5] = "-" /\ text[j] = "-"
        /\ LET year == SubSeq(text, 1, 4)
               month == SubSeq(text, 6, j - 1)
               day == SubSeq(text, j + 1, Len(text))
           IN /\ AllDigits(year) /\ AllDigits(month) /\ AllDigits(day)
              /\ TextToNat(year) >= 1
              /\ TextToNat(month) \in 1..12
              /\ TextToNat(day) \in 1..DaysInMonth(TextToNat(year),
                                                   TextToNat(month))

\* LabelInput.field_types, with the classes DataRecordForm names itself
Widget ==
    [k \in FieldSet |->
        CASE k = "Notes" -> "BoundText"
          [] FieldType[k] = "string" -> "RequiredEntry"
          [] FieldType[k] = "string_list" -> "ValidatedCombobox"
          [] FieldType[k] = "short_string_list" -> "ValidatedRadioGroup"
          [] FieldType[k] = "iso_date_string" -> "DateEntry"
          [] FieldType[k] \in {"decimal", "integer"} -> "ValidatedSpinbox"
          [] FieldType[k] = "boolean" -> "Checkbutton"]

\* the widgets that mix in ValidatedMixin
Mixin == {"RequiredEntry", "DateEntry", "ValidatedCombobox", "ValidatedSpinbox"}

\* hasattr(inp, 'trigger_focusout_validation')
HasTrigger(k) == Widget[k] \in Mixin \cup {"ValidatedRadioGroup"}

\* 'min' and 'max' of CSVModel.fields, in hundredths: from_ and to the
\* spinboxes are created with
FieldRange ==
    [k \in {j \in FieldSet : Widget[j] = "ValidatedSpinbox"} |->
        CASE k = "Humidity" -> [min |-> 50, max |-> 5200]
          [] k = "Light" -> [min |-> 0, max |-> 10000]
          [] k = "Temperature" -> [min |-> 400, max |-> 4000]
          [] k = "Plants" -> [min |-> 0, max |-> 2000]
          [] k \in {"Blossoms", "Fruit"} -> [min |-> 0, max |-> 100000]
          [] k \in {"Min Height", "Max Height", "Med Height"} ->
                [min |-> 0, max |-> 100000]]

RequiredError(text) ==
    IF text = <<>> THEN Message("A value is required", <<>>) ELSE NoError

\* DateEntry._focusout_validate: the message of the failed parse is set
\* after that of the missing value
DateError(text) ==
    IF StrptimeOk(text) THEN NoError ELSE Message("Invalid date", <<>>)

\* a focus-out rule that takes the maximum itself for too high
SpinboxErrorInclusive(text, range, d) ==
    IF d.err # "" THEN Message("Invalid number string: ", text)
    ELSE IF d.val >= range.max
    THEN Message("Value is too high (max ", FloatText(range.max))
    ELSE IF d.val < range.min
    THEN Message("Value is too low (min ", FloatText(range.min))
    ELSE NoError

\* ValidatedSpinbox._focusout_validate
SpinboxError(text, range, d) ==
    IF d.err # "" THEN Message("Invalid number string: ", text)
    ELSE IF d.val > range.max
    THEN Message("Value is too high (max ", FloatText(range.max))
    ELSE IF d.val < range.min
    THEN Message("Value is too low (min ", FloatText(range.min))
    ELSE NoError

\* the error _focusout_validate leaves for the text of an enabled widget
FocusoutError(k, text) ==
    CASE Widget[k] = "DateEntry" -> DateError(text)
      [] Widget[k] = "ValidatedSpinbox" ->
            SpinboxError(text, limits[k], ParseDecimal(text))
      [] OTHER -> RequiredError(text)

\* trigger_focusout_validation: _validate clears the error and stops there
\* for a disabled widget
Validated(k, text, isDisabled) ==
    IF Widget[k] \in Mixin /\ isDisabled THEN NoError
    ELSE FocusoutError(k, text)

(***************************************************************************)
(* tkinter variables: the value get() converts the variable's text to      *)
(***************************************************************************)
VarType ==
    [k \in FieldSet |->
        CASE k \in {"Plot", "Plants", "Blossoms", "Fruit"} -> "IntVar"
          [] k \in {"Humidity", "Light", "Temperature", "Min Height",
                    "Max Height", "Med Height"} -> "DoubleVar"
          [] k = "Equipment Fault" -> "BooleanVar"
          [] OTHER -> "StringVar"]

\* IntVar.get: getint, or int(getdouble) for a text with a point
\* DoubleVar.get: getdouble; BooleanVar.get: getboolean
\* (d is the number Tcl reads the text as)
VarValue(type, text, d) ==
    CASE type = "StringVar" -> Ok(MkStr(text))
      [] type = "IntVar" ->
            IF d.err # "" THEN Err("TclError")
            ELSE Ok(MkInt(IF d.val < 0 THEN 0 - ((0 - d.val) \div 100)
                          ELSE d.val \div 100))
      [] type = "DoubleVar" ->
            IF d.err # "" THEN Err("TclError") ELSE Ok(MkFloat(d.val))
      [] type = "BooleanVar" ->
            IF text \in {<<"0">>, <<"1">>} THEN Ok(MkBool(text = <<"1">>))
            ELSE Err("TclError")

RECURSIVE OctalToNat(_)
OctalToNat(s) ==
    IF s = <<>> THEN 0
    ELSE 8 * OctalToNat(SubSeq(s, 1, Len(s) - 1)) + DigitVal(s[Len(s)])

\* getdouble (and getint) of the variable's text, in hundredths: digits
\* after a leading 0 and without a point are read as an octal number, and
\* are no number when an 8 or a 9 is among them
TclDouble(text, d) ==
    LET negative == text # <<>> /\ text[1] = "-"
        body == IF negative THEN Tail(text) ELSE text
        octal == /\ Len(body) > 1 /\ body[1] = "0"
                 /\ \A i \in 1..Len(body) : body[i] # "."
    IN IF d.err # "" THEN Err("TclError")
       ELSE IF ~octal THEN d
       ELSE IF \E i \in 1..Len(body) : body[i] \in {"8", "9"}
       THEN Err("TclError")
       ELSE Ok(IF negative THEN 0 - 100 * OctalToNat(body)
               ELSE 100 * OctalToNat(body))

VarGet(type, text) ==
    VarValue(type, text, TclDouble(text, ParseDecimal(text)))

\* the value a tkinter variable is created with
InitialText ==
    [k \in FieldSet |->
        CASE VarType[k] = "IntVar" -> <<"0">>
          [] VarType[k] = "DoubleVar" -> <<"0", ".", "0">>
          [] VarType[k] = "BooleanVar" -> <<"0">>
          [] OTHER -> <<>>]

\* the inputs the equipment fault disables
FaultDisables == {"Humidity", "Light", "Temperature"}

(***************************************************************************)
(* widgets.py: the key rules.  A key event inserts char before index or    *)
(* deletes the character at index; proposed is the text the event asks     *)
(* for.  The verdict is [valid, set, err]: set is the text the rule itself *)
(* put into the widget (Kept when it put none), err the exception raised.  *)
(***************************************************************************)
InsertAt(text, index, char) ==
    SubSeq(text, 1, index) \o <<char>> \o SubSeq(text, index + 1, Len(text))

DeleteAt(text, index) ==
    SubSeq(text, 1, index) \o SubSeq(text, index + 2, Len(text))

\* the text Tk gives for %i
IndexText(index) == NatToText(index)

Kept == [kept |-> TRUE]
Verdict(valid, set, err) == [valid |-> valid, set |-> set, err |-> err]

\* x.startswith(prefix)
StartsWith(x, prefix) ==
    Len(prefix) <= Len(x) /\ SubSeq(x, 1, Len(prefix)) = prefix

\* char in text, for one character or the empty text
InText(char, text) ==
    char = <<>> \/ \E i \in 1..Len(text) : <<text[i]>> = char

\* RequiredEntry has no key rule: ValidatedMixin._key_validate
MixinKey == Verdict(TRUE, Kept, "")

\* a date rule that asks for a digit at every one of the ten places
DateKeyDigitsOnly(action, index, char) ==
    IF action = "0" THEN Verdict(TRUE, Kept, "")
    ELSE Verdict(index \in 0..9 /\ IsDigit(char), Kept, "")

\* DateEntry._key_validate
DateKey(action, index, char) ==
    IF action = "0" THEN Verdict(TRUE, Kept, "")
    ELSE IF IndexText(index) \in {<<"0">>, <<"1">>, <<"2">>, <<"3">>,
                                  <<"5">>, <<"6">>, <<"8">>, <<"9">>}
    THEN Verdict(IsDigit(char), Kept, "")
    ELSE IF IndexText(index) \in {<<"4">>, <<"7">>}
    THEN Verdict(char = "-", Kept, "")
    ELSE Verdict(FALSE, Kept, "")

\* the values whose text starts with the proposed text, whatever the case
Matching(values, proposed) ==
    SelectSeq(values, LAMBDA x : StartsWith(Lower(x), Lower(proposed)))

\* a combobox rule that leaves a single match to the user
ComboKeyNoAutocomplete(proposed, action, values) ==
    IF action = "0" THEN Verdict(TRUE, <<>>, "")
    ELSE Verdict(Len(Matching(values, proposed)) > 0, Kept, "")

\* ValidatedCombobox._key_validate
ComboKey(proposed, action, values) ==
    IF action = "0" THEN Verdict(TRUE, <<>>, "")
    ELSE IF Len(Matching(values, proposed)) = 0
    THEN Verdict(FALSE, Kept, "")
    ELSE IF Len(Matching(values, proposed)) = 1
    THEN Verdict(FALSE, Matching(values, proposed)[1], "")
    ELSE Verdict(TRUE, Kept, "")

\* Decimal(proposed): the digits as a whole number and the number of digits
\* after the point (as_tuple().exponent is its negative)
DecimalParts(text) ==
    LET negative == text # <<>> /\ text[1] = "-"
        body == IF negative THEN Tail(text) ELSE text
        points == {i \in 1..Len(body) : body[i] = "."}
        point == IF points = {} THEN Len(body) + 1
                 ELSE CHOOSE i \in points : TRUE
        whole == SubSeq(body, 1, point - 1)
        frac == SubSeq(body, point + 1, Len(body))
    IN IF /\ Cardinality(points) <= 1
          /\ AllDigits(whole) /\ AllDigits(frac)
          /\ Len(whole) + Len(frac) > 0
       THEN Ok([num |-> IF negative THEN 0 - TextToNat(whole \o frac)
                        ELSE TextToNat(whole \o frac),
                places |-> Len(frac)])
       ELSE Err("InvalidOperation")

RECURSIVE Pow10(_)
Pow10(n) == IF n = 0 THEN 1 ELSE 10 * Pow10(n - 1)

\* increment.normalize().as_tuple().exponent for 'inc' of CSVModel.fields
\* (.01), or for the '1.0' of a field without one
Precision ==
    [k \in {j \in FieldSet : Widget[j] = "ValidatedSpinbox"} |->
        IF FieldType[k] = "decimal" THEN 0 - 2 ELSE 0]

\* a spinbox rule that does not look at the precision
SpinboxKeyNoPrecision(char, index, current, proposed, action, range, precision, d) ==
    IF action = "0" THEN Verdict(TRUE, Kept, "")
    ELSE IF \/ ~InText(<<char>>, <<"-", "1", "2", "3", "4", "5", "6", "7",
                                  "8", "9">>)
            \/ (char = "-" /\ (range.min >= 0 \/ IndexText(index) # <<"0">>))
            \/ (char = "." /\ (precision >= 0 \/ InText(<<".">>, current)))
    THEN Verdict(FALSE, Kept, "")
    ELSE IF proposed \in {<<>>, <<"-">>, <<".">>, <<"-", ".">>}
    THEN Verdict(TRUE, Kept, "")
    ELSE IF d.err # "" THEN Verdict(FALSE, Kept, d.err)
    ELSE Verdict(d.val.num * 100 <= range.max * Pow10(d.val.places), Kept, "")

\* ValidatedSpinbox._key_validate (range in hundredths; d is
\* Decimal(proposed))
SpinboxKey(char, index, current, proposed, action, range, precision, d) ==
    IF action = "0" THEN Verdict(TRUE, Kept, "")
    ELSE IF \/ ~InText(<<char>>, <<"-", "1", "2", "3", "4", "5", "6", "7",
                                  "8", "9">>)
            \/ (char = "-" /\ (range.min >= 0 \/ IndexText(index) # <<"0">>))
            \/ (char = "." /\ (precision >= 0 \/ InText(<<".">>, current)))
    THEN Verdict(FALSE, Kept, "")
    ELSE IF proposed \in {<<>>, <<"-">>, <<".">>, <<"-", ".">>}
    THEN Verdict(TRUE, Kept, "")
    ELSE IF d.err # "" THEN Verdict(FALSE, Kept, d.err)
    ELSE IF \/ d.val.num * 100 > range.max * Pow10(d.val.places)
            \/ 0 - d.val.places < precision
    THEN Verdict(FALSE, Kept, "")
    ELSE Verdict(TRUE, Kept, "")

(***************************************************************************)
(* views.py: DataRecordForm                                                *)
(***************************************************************************)
\* get_errors reading the error variables as they are
ErrorsAsTheyAre(texts, errors, off) == errors

\* DataRecordForm.get_errors: every input that has a trigger is validated
\* again; the error variables after that, and the mapping returned
ErrorsAfterValidation(texts, errors, off) ==
    [k \in FieldSet |->
        IF HasTrigger(k) THEN Validated(k, texts[k], k \in off)
        ELSE errors[k]]

GetErrors(errors) ==
    [k \in {j \in FieldSet : errors[j] # NoError} |-> errors[k]]

\* a get that reads every variable, whatever the fault flag
CollectAll(fault, values) ==
    IF fault.err # "" THEN Err("TclError")
    ELSE IF \E k \in FieldSet : values[k].err # ""
    THEN Err("ValueError")
    ELSE Ok([k \in FieldSet |-> values[k].val])

\* DataRecordForm.get: the record, or ValueError when a variable cannot be
\* read (fault and values are what the variables' get() give)
Collect(fault, values) ==
    IF fault.err # "" THEN Err("TclError")
    ELSE IF \E k \in FieldSet :
               ~(fault.val.v /\ k \in FaultDisables) /\ values[k].err # ""
    THEN Err("ValueError")
    ELSE Ok([k \in FieldSet |->
               IF fault.val.v /\ k \in FaultDisables THEN MkStr(<<>>)
               ELSE values[k].val])

FormGet(texts) ==
    Collect(VarGet("BooleanVar", texts["Equipment Fault"]),
            [k \in FieldSet |-> VarGet(VarType[k], texts[k])])

\* the date datetime.today() gives
Today == <<"2", "0", "2", "3", "-", "0", "1", "-", "0", "5">>

\* 'values' of the Plot combobox: '1' .. '20'
PlotValues == [i \in 1..20 |-> NatToText(i)]

\* the inputs created with a focus_update_var
FocusUpdates == {"Min Height", "Max Height"}

\* the inputs that trace the variable an input updates (min_var, max_var)
Linked(old) ==
    IF old = "Min Height" THEN {"Max Height", "Med Height"}
    ELSE IF old = "Max Height" THEN {"Min Height", "Med Height"}
    ELSE {}

\* from_ and to once the focus has left old with the error oldError:
\* _set_focus_update_var sets the variable to the text when there is no
\* error, and _set_minimum, _set_maximum of the inputs that trace it
\* configure what the variable's get() gives, unless it raises
LimitsAfter(texts, oldError, lims, old) ==
    IF old \notin FocusUpdates \/ oldError # NoError THEN lims
    ELSE IF VarGet("DoubleVar", texts[old]).err # "" THEN lims
    ELSE [k \in DOMAIN lims |->
            IF k \notin Linked(old) THEN lims[k]
            ELSE IF old = "Min Height"
            THEN [lims[k] EXCEPT !.min = VarGet("DoubleVar", texts[old]).val.v]
            ELSE [lims[k] EXCEPT !.max = VarGet("DoubleVar", texts[old]).val.v]]

\* _set_minimum, _set_maximum end with trigger_focusout_validation
Traced(texts, errors, lims, old) ==
    [k \in FieldSet |->
        IF k \in Linked(old)
        THEN SpinboxError(texts[k], lims[k], ParseDecimal(texts[k]))
        ELSE errors[k]]

\* the error variables once the focus has gone from one input to another:
\* validate='all' runs _validate on focusin (which clears the error) and on
\* focusout (which runs the focus-out rule); the radio group validates when
\* the focus leaves it
MoveFocus(texts, errors, off, old, new) ==
    LET left == IF old \in FieldSet /\ HasTrigger(old) /\ old # new
                THEN [errors EXCEPT ![old] = Validated(old, texts[old], old \in off)]
                ELSE errors
        traced == IF old \in FocusUpdates /\ old # new /\ left[old] = NoError
                  THEN Traced(texts, left,
                              LimitsAfter(texts, NoError, limits, old), old)
                  ELSE left
    IN IF new \in FieldSet /\ Widget[new] \in Mixin /\ old # new
       THEN [traced EXCEPT ![new] = NoError]
       ELSE traced

\* the end of reset: the inputs are enabled again (the fault variable was
\* written), the focus has gone where focus() sent it
ResetDone(plan, errors, foc) ==
    [content |-> plan.content, disabled |-> {}, focus |-> plan.focus,
     err |-> plan.err,
     error |-> MoveFocus(plan.content,
                         MoveFocus(plan.content, errors, {}, foc, plan.first),
                         {}, plan.first, plan.focus)]

\* the variables reset leaves, where it sends the focus (first, then focus)
\* and what it raises; plot is what the Plot variable's get() gave
ResetPlan(texts, plot, foc, sett) ==
    LET \* var.set(False) for the BooleanVar, var.set('') for the others
        dated == [k \in FieldSet |->
                    IF VarType[k] = "BooleanVar" THEN <<"0">>
                    ELSE IF k = "Date" /\ sett["autofill date"] THEN Today
                    ELSE <<>>]
        first == IF sett["autofill date"] THEN "Time" ELSE foc
        kept == [dated EXCEPT !["Lab"] = texts["Lab"],
                              !["Time"] = texts["Time"],
                              !["Technician"] = texts["Technician"]]
        found == {i \in 1..Len(PlotValues) : PlotValues[i] = PyStr(plot.val)}
        next_plot_index == (CHOOSE i \in found : TRUE) + 1
    IN \* plot not in ('', 0, plot_values[-1]): plot is an int (or '') and
       \* plot_values[-1] is the text '20'
       IF ~(sett["autofill sheet data"] /\ plot.err = "" /\ plot.val.v # 0)
       THEN [content |-> dated, first |-> first, focus |-> first, err |-> ""]
       ELSE IF found = {}
       THEN [content |-> kept, first |-> first, focus |-> first,
             err |-> "ValueError"]
       ELSE IF next_plot_index > Len(PlotValues)
       THEN [content |-> kept, first |-> first, focus |-> first,
             err |-> "IndexError"]
       ELSE [content |-> [kept EXCEPT !["Plot"] = PlotValues[next_plot_index]],
             first |-> first, focus |-> "Seed Sample", err |-> ""]

\* DataRecordForm.reset: [content, error, disabled, focus, err]; setting
\* the variable of a validated entry runs _validate, which clears its error
ResetForm(texts, errors, off, foc, sett) ==
    ResetDone(ResetPlan(texts, VarGet("IntVar", texts["Plot"]), foc, sett),
              [k \in FieldSet |->
                  IF Widget[k] \in Mixin THEN NoError ELSE errors[k]],
              foc)

\* the position of the record the form holds: None for a new record
current_record == PyNone


(***************************************************************************)
(* Inputs of the store                                                     *)
(***************************************************************************)
tX == <<"x">>
tTRUE == <<"T", "R", "U", "E">>
tYes == <<"Y", "e", "s">>
tOne == <<"1">>
tNo == <<"n", "o">>

TextRecord(fault) ==
    [k \in FieldSet |->
        IF k = "Equipment Fault" THEN MkStr(fault) ELSE MkStr(tX)]

\* the records handed to save_record
InputRecords ==
    { TextRecord(tTRUE), TextRecord(tYes), TextRecord(tOne),
      \* values that are not texts (an actual boolean, a number, None), a
      \* key left out and a carriage return in the notes
      [k \in FieldSet \ {"Seed Sample"} |->
          CASE k = "Equipment Fault" -> MkBool(FALSE)
            [] k = "Plot" -> MkInt(12)
            [] k = "Humidity" -> PyNone
            [] k = "Notes" -> MkStr(<<"a", "\r">>)
            [] OTHER -> MkStr(tX)],
      \* a key outside the canonical field set
      [k \in FieldSet \cup {"Extra"} |->
          IF k = "Extra" THEN MkStr(tX) ELSE TextRecord(tNo)[k]] }

\* the records handed to save_record with a position
ReplaceRecords == InputRecords \ {TextRecord(tTRUE), TextRecord(tOne)}

\* the row positions handed to save_record and get_record: every line of
\* the file, one before the first and one past the last
Positions(f) == (0 - 1)..Len(f.rows)

TextRow(fault) == DictToList(TextRecord(fault))

\* the header with one key removed
HeaderWithout(key) == SelectSeq(Fields, LAMBDA k : k # key)

\* the header in reverse order with one more column
HeaderSuperset ==
    [i \in 1..Len(Fields) |-> Fields[Len(Fields) + 1 - i]] \o <<"Extra">>

\* the files the store may be constructed on
InitialFiles ==
    { NoFile,
      EmptyFile,
      \* a header that lacks Plot
      MkFile(HeaderWithout("Plot"), <<Tail(TextRow(tYes))>>),
      \* a header that holds every key, in another order, and one more
      MkFile(HeaderSuperset, <<[i \in 1..Len(HeaderSuperset) |-> tYes]>>),
      \* a row shorter than the header
      MkFile(Fields, << <<tX, tX>> >>),
      \* a blank line and a row longer than the header, its fault cell empty
      MkFile(Fields, << <<>>, Append(TextRow(<<>>), tX)>>) }

NoCall == [op |-> "none", rownum |-> PyNone, err |-> "", val |-> <<>>]

Call(op, rownum, err, val) ==
    [op |-> op, rownum |-> rownum, err |-> err, val |-> val]

\* track of a store that was not constructed on a missing file
Untracked == [fresh |-> FALSE, abstract |-> <<>>, history |-> "none"]

\* track of a store one of whose save calls has raised
Failed == [fresh |-> TRUE, abstract |-> <<>>, history |-> "failed"]

\* what the last save of the application did
NoEvent == [op |-> "none", errors |-> <<>>, outcome |-> ""]
\* no key event yet
NoKey == [op |-> "none"]
\* the application once __init__ has returned with the main window shown
Running == [phase |-> "running", error |-> "", traced |-> FALSE]
NoCommand == [op |-> "none"]
Event(op, errors, outcome) ==
    [op |-> op, errors |-> errors, outcome |-> outcome]

FormInit ==
    /\ content = InitialText
    /\ error = [k \in FieldSet |-> NoError]
    /\ disabled = {}
    /\ focus = "none"
    /\ recordsSaved = 0
    /\ settings = [k \in SettingKeys |-> FALSE]
    /\ appOp = NoEvent
    /\ keyOp = NoKey
    /\ limits = FieldRange
    /\ document = NoDocument
    /\ fields = SettingDefaults
    /\ session = Running
    /\ sessionOp = NoCommand

(***************************************************************************)
(* Operations of the store                                                 *)
(***************************************************************************)
StoreInit ==
    /\ file \in InitialFiles
    /\ parentWritable \in BOOLEAN
    /\ fileWritable \in (IF file.exists THEN BOOLEAN ELSE {FALSE})
    /\ store = "unconstructed"
    /\ lastOp = NoCall
    \* on a store constructed on a missing file (fresh): abstract holds the
    \* records the successful save calls wrote, as given, by position;
    \* history is "appends" while every save call was an append that
    \* succeeded, "saves" while every save call succeeded, else "failed"
    \* (and abstract is no longer kept)
    /\ track = IF file.exists THEN Untracked
               ELSE [fresh |-> TRUE, abstract |-> <<>>, history |-> "appends"]
    /\ FormInit

\* m.CSVModel(): raises PermissionError or leaves a usable store
Construct ==
    /\ store = "unconstructed"
    /\ LET denied == PermissionDenied(file.exists, parentWritable, fileWritable)
       IN /\ store' = IF denied THEN "denied" ELSE "ready"
          /\ lastOp' = Call("construct", PyNone,
                            IF denied THEN "PermissionError" ELSE "", <<>>)
    /\ UNCHANGED <<file, parentWritable, fileWritable, track, formVars,
                    keyVars, sessionVars>>

Saved(r, op, data, rownum) ==
    /\ file' = r.file
    /\ lastOp' = Call(op, rownum, r.err, <<>>)
    /\ track' =
         IF ~track.fresh \/ track.history = "failed" THEN track
         ELSE IF r.err # "" THEN Failed
         ELSE IF rownum.t = "none"
         THEN [track EXCEPT !.abstract = Append(@, data)]
         ELSE [track EXCEPT
                 !.abstract[ListIndex(Len(track.abstract), rownum.v)] = data,
                 !.history = IF @ = "appends" THEN "saves" ELSE @]
    /\ UNCHANGED <<parentWritable, fileWritable, store>>

\* save_record(data)
AppendRecord(data) ==
    /\ store = "ready"
    /\ Len(file.rows) < MaxRows
    /\ Saved(SaveRecord(file, data, PyNone), "append", data, PyNone)
    /\ UNCHANGED <<formVars, keyVars, sessionVars>>

\* save_record(data, rownum)
ReplaceRecord(data, rownum) ==
    /\ store = "ready"
    /\ Saved(SaveRecord(file, data, MkInt(rownum)), "replace", data,
             MkInt(rownum))
    /\ UNCHANGED <<formVars, keyVars, sessionVars>>

Returned(r, op, rownum) ==
    /\ lastOp' = Call(op, rownum, r.err, r.val)
    /\ UNCHANGED <<file, parentWritable, fileWritable, store, track,
                    formVars, keyVars, sessionVars>>

\* get_all_records()
ReadAll ==
    /\ store = "ready"
    /\ Returned(GetAllRecords(file), "read_all", PyNone)

\* get_record(rownum)
ReadOne(rownum) ==
    /\ store = "ready"
    /\ Returned(GetRecord(file, rownum), "read_one", MkInt(rownum))

StoreNext ==
    \/ Construct
    \/ \E data \in InputRecords : AppendRecord(data)
    \/ \E data \in ReplaceRecords : \E rownum \in Positions(file) :
          ReplaceRecord(data, rownum)
    \/ ReadAll
    \/ \E rownum \in Positions(file) : ReadOne(rownum)

(***************************************************************************)
(* The application: the form over the store                                *)
(***************************************************************************)
\* the inputs the user visits
FocusRing == {"Date", "Time", "Technician", "Lab", "Seed Sample", "Humidity",
              "Temperature", "Equipment Fault"}

tDate == <<"2", "0", "2", "3", "-", "1", "-", "5">>
tBadDate == <<"2", "0", "2", "3", "-", "0", "2", "-", "3", "0">>

\* the texts the user leaves in an input
TypedTexts ==
    [k \in FocusRing \ {"Equipment Fault"} |->
        CASE k = "Date" -> {tDate, tBadDate}
          [] k = "Time" -> {<<"8", ":", "0", "0">>}
          [] k = "Lab" -> {<<"A">>}
          [] k = "Humidity" -> {<<"1">>}
          [] k = "Temperature" -> {<<"5">>}
          [] OTHER -> {tX}]

\* the files the application starts on
AppFiles == {NoFile}

\* Application.__init__ has constructed the store and the form
AppInit ==
    /\ file \in AppFiles
    /\ parentWritable = TRUE
    /\ fileWritable = file.exists
    /\ store = "ready"
    /\ lastOp = NoCall
    /\ track = Untracked
    /\ FormInit

TabOrder == <<"Date", "Time", "Technician", "Lab", "Seed Sample", "Humidity",
              "Temperature", "Equipment Fault", "none">>

RECURSIVE FocusNext(_, _)
FocusNext(k, off) ==
    LET i == CHOOSE j \in 1..Len(TabOrder) : TabOrder[j] = k
        n == TabOrder[(i % Len(TabOrder)) + 1]
    IN IF n \in off THEN FocusNext(n, off) ELSE n

\* the error the focus-out rule leaves in the input the focus leaves
Left(texts, off, old) ==
    IF old \in FieldSet /\ HasTrigger(old)
    THEN Validated(old, texts[old], old \in off) ELSE NoError

\* the focus goes to another input, or away from the inputs
FocusMoves(k) ==
    /\ error' = MoveFocus(content, error, disabled, focus, k)
    /\ limits' = LimitsAfter(content, Left(content, disabled, focus), limits,
                             focus)
    /\ focus' = k
    /\ appOp' = NoEvent

\* the Tab key takes the focus to the next input
Focus(k) ==
    /\ k = FocusNext(focus, disabled)
    /\ FocusMoves(k)
    /\ UNCHANGED <<content, disabled, recordsSaved, settings, keyOp, sessionVars,
                    storeVars>>

\* the user's keys leave a text in the input that has the focus: every key
\* runs _validate, which clears the error; a radio button only sets the
\* variable
Typed(text) ==
    /\ content' = [content EXCEPT ![focus] = text]
    /\ error' = IF Widget[focus] \in Mixin
                THEN [error EXCEPT ![focus] = NoError] ELSE error
    /\ appOp' = NoEvent
    /\ UNCHANGED <<disabled, focus, recordsSaved, settings, keyVars, sessionVars,
                    storeVars>>

Type(text) ==
    /\ focus \in DOMAIN TypedTexts
    /\ text \in TypedTexts[focus]
    /\ Typed(text)

\* a toggle that disables the three inputs and leaves what they hold
ToggleFaultKeepsValues ==
    /\ focus = "Equipment Fault"
    /\ content' = [content EXCEPT !["Equipment Fault"] =
                      IF @ = <<"0">> THEN <<"1">> ELSE <<"0">>]
    /\ disabled' = IF content["Equipment Fault"] = <<"0">>
                   THEN FaultDisables ELSE {}
    /\ appOp' = NoEvent
    /\ UNCHANGED <<error, focus, recordsSaved, settings, keyVars, sessionVars, storeVars>>

\* the checkbutton is toggled: LabelInput._check_disable of the three
\* inputs that trace the variable
ToggleFault ==
    /\ focus = "Equipment Fault"
    /\ LET on == content["Equipment Fault"] = <<"0">>
       IN /\ content' = [k \in FieldSet |->
                           IF k = "Equipment Fault"
                           THEN (IF on THEN <<"1">> ELSE <<"0">>)
                           ELSE IF on /\ k \in FaultDisables THEN <<>>
                           ELSE content[k]]
          /\ error' = [k \in FieldSet |->
                         IF on /\ k \in FaultDisables THEN NoError ELSE error[k]]
          /\ disabled' = IF on THEN FaultDisables ELSE {}
    /\ appOp' = NoEvent
    /\ UNCHANGED <<focus, recordsSaved, settings, keyVars, sessionVars, storeVars>>

\* the end of Application._on_save: the record is in the file, the count
\* goes up, the form is reset (fresh), the record list is filled again
AfterSave(fresh) ==
    /\ recordsSaved' = recordsSaved + 1
    /\ content' = fresh.content
    /\ error' = fresh.error
    /\ disabled' = fresh.disabled
    /\ focus' = fresh.focus
    /\ appOp' = Event("save", <<>>,
                      IF fresh.err # "" THEN fresh.err ELSE "saved")

\* model.save_record(data, rownum) has run (saved): what it raises ends
\* the handler
SaveData(validated, saved) ==
    /\ file' = saved.file
    /\ IF saved.err # ""
       THEN /\ error' = validated
            /\ appOp' = Event("save", <<>>, saved.err)
            /\ UNCHANGED <<content, disabled, focus, recordsSaved>>
       ELSE AfterSave(ResetForm(content, validated, disabled, focus, settings))

\* get_errors() returned nothing and recordform.get() has run (data)
SaveValid(validated, data) ==
    IF data.err # ""
    THEN /\ error' = validated
         /\ appOp' = Event("save", <<>>, data.err)
         /\ UNCHANGED <<content, disabled, focus, recordsSaved, file>>
    ELSE SaveData(validated, SaveRecord(file, data.val, current_record))

\* a save that goes on whatever get_errors() returned
OnSaveUnchecked(validated, errors) ==
    /\ Len(file.rows) < MaxRows
    /\ SaveValid(validated, FormGet(content))
    /\ UNCHANGED <<settings, keyVars, sessionVars, parentWritable, fileWritable, store,
                    lastOp, track>>

\* Application._on_save: validated and errors are the error variables
\* after get_errors() and the mapping it returned
OnSave(validated, errors) ==
    /\ IF DOMAIN errors # {}
       THEN /\ error' = validated
            /\ appOp' = Event("save", errors, "blocked")
            /\ UNCHANGED <<content, disabled, focus, recordsSaved, file>>
       ELSE /\ Len(file.rows) < MaxRows
            /\ SaveValid(validated, FormGet(content))
    /\ UNCHANGED <<settings, keyVars, sessionVars, parentWritable, fileWritable, store,
                    lastOp, track>>

Save ==
    OnSave(ErrorsAfterValidation(content, error, disabled),
           GetErrors(ErrorsAfterValidation(content, error, disabled)))

\* the Reset button: DataRecordForm.reset
Cleared(fresh) ==
    /\ content' = fresh.content
    /\ error' = fresh.error
    /\ disabled' = fresh.disabled
    /\ focus' = fresh.focus
    /\ appOp' = Event("reset", <<>>, fresh.err)
    /\ UNCHANGED <<recordsSaved, settings, keyVars, sessionVars, storeVars>>

Reset == Cleared(ResetForm(content, error, disabled, focus, settings))

AppNext ==
    \/ \E k \in FocusRing \cup {"none"} : Focus(k)
    \/ \E text \in UNION {TypedTexts[k] : k \in DOMAIN TypedTexts} : Type(text)
    \/ ToggleFault
    \/ Save
    \/ Reset

SpecApp == AppInit /\ [][AppNext]_vars

\* the store on its own: the form stays as constructed
SpecStore == StoreInit /\ [][StoreNext]_vars

(***************************************************************************)
(* One input and its keys                                                  *)
(***************************************************************************)
\* the inputs the keys are tried on
KeyFields == {"Date", "Time", "Technician", "Humidity", "Plants"}

\* the characters of the keys
Chars == {"0", "1", "2", "8", "-", ".", "x", " "}

\* the text the input holds when the keys start: the text it was created
\* with, a text typed before, or a text set through its variable
StartTexts ==
    [k \in KeyFields |->
        CASE k = "Date" -> {<<>>, <<"2", "0", "2", "3", "-", "0", "2", "-", "2">>, <<"2", "0", "2", "3", "-", "0", "2", "-", "3">>}
          [] k = "Humidity" -> {InitialText[k], <<>>, <<"5", "2", ".", "0", "0">>, <<"5", "2", ".", "0", "1">>}
          [] k = "Plants" -> {InitialText[k], <<"2", ".">>}
          [] OTHER -> {InitialText[k]}]

\* 'values' of the comboboxes
Values ==
    [k \in {"Time", "Plot"} |->
        IF k = "Time" THEN <<<<"8", ":", "0", "0">>, <<"1", "2", ":", "0", "0">>, <<"1", "6", ":", "0", "0">>, <<"2", "0", ":", "0", "0">>>> ELSE PlotValues]

\* ValidatedMixin._validate on a key event: the key rule of the widget
KeyRule(k, action, index, char, current, proposed) ==
    CASE Widget[k] = "DateEntry" -> DateKey(action, index, char)
      [] Widget[k] = "ValidatedCombobox" ->
            ComboKey(proposed, action, Values[k])
      [] Widget[k] = "ValidatedSpinbox" ->
            SpinboxKey(char, index, current, proposed, action, limits[k],
                       Precision[k], DecimalParts(proposed))
      [] OTHER -> MixinKey

\* the texts the widget can hold once Tk has dealt with the verdict: an
\* edit that is accepted is applied, and the text the rule set is left
\* when the edit is refused; where the rule set a text and accepted the
\* edit, either of the two
After(verdict, current, proposed) ==
    IF verdict.valid
    THEN (IF verdict.set = Kept THEN {proposed} ELSE {proposed, verdict.set})
    ELSE (IF verdict.set = Kept THEN {current} ELSE {verdict.set})

KeyEvent(k, action, index, char, current, proposed, verdict, n) ==
    [op |-> "key", field |-> k, action |-> action, index |-> index,
     char |-> char, current |-> current, proposed |-> proposed,
     valid |-> verdict.valid, set |-> verdict.set, err |-> verdict.err,
     n |-> n]

KeysInit ==
    /\ file = NoFile
    /\ parentWritable = TRUE
    /\ fileWritable = FALSE
    /\ store = "ready"
    /\ lastOp = NoCall
    /\ track = Untracked
    /\ \E k \in KeyFields : \E text \in StartTexts[k] :
          /\ content = [InitialText EXCEPT ![k] = text]
          /\ keyOp = [op |-> "none", field |-> k, n |-> 0]
    /\ error = [k \in FieldSet |-> NoError]
    /\ disabled = {}
    /\ focus = "none"
    /\ recordsSaved = 0
    /\ settings = [k \in SettingKeys |-> FALSE]
    /\ appOp = NoEvent
    /\ limits = FieldRange
    /\ document = NoDocument
    /\ fields = SettingDefaults
    /\ session = Running
    /\ sessionOp = NoCommand

\* a click gives the focus to the input, or takes it away from it
Click(k) ==
    /\ k # focus
    /\ FocusMoves(k)
    /\ UNCHANGED <<content, disabled, recordsSaved, settings, keyOp, sessionVars,
                    storeVars>>

\* a key event that reports every refused key as an error of the input
KeyedRefusalIsError(action, index, char, proposed, verdict) ==
    /\ keyOp.n < MaxKeys
    /\ \E text \in After(verdict, content[focus], proposed) :
          content' = [content EXCEPT ![focus] = text]
    /\ error' = [error EXCEPT ![focus] =
                    IF verdict.valid THEN NoError
                    ELSE Message("Invalid key", proposed)]
    /\ keyOp' = KeyEvent(focus, action, index, char, content[focus], proposed,
                         verdict, keyOp.n + 1)
    /\ appOp' = NoEvent
    /\ UNCHANGED <<disabled, focus, recordsSaved, settings, limits, sessionVars,
                   storeVars>>

\* a key event of the input that has the focus: _validate clears the error
\* and asks the key rule
Keyed(action, index, char, proposed, verdict) ==
    /\ keyOp.n < MaxKeys
    /\ \E text \in After(verdict, content[focus], proposed) :
          content' = [content EXCEPT ![focus] = text]
    /\ error' = [error EXCEPT ![focus] = NoError]
    /\ keyOp' = KeyEvent(focus, action, index, char, content[focus], proposed,
                         verdict, keyOp.n + 1)
    /\ appOp' = NoEvent
    /\ UNCHANGED <<disabled, focus, recordsSaved, settings, limits, sessionVars,
                   storeVars>>

\* a character is typed before index
Insert(index, char) ==
    /\ focus \in KeyFields
    /\ index \in 0..Len(content[focus])
    /\ Keyed("1", index, char, InsertAt(content[focus], index, char),
             KeyRule(focus, "1", index, char, content[focus],
                     InsertAt(content[focus], index, char)))

\* the character at index is deleted
Delete(index) ==
    /\ focus \in KeyFields
    /\ index \in 0..(Len(content[focus]) - 1)
    /\ Keyed("0", index, content[focus][index + 1],
             DeleteAt(content[focus], index),
             KeyRule(focus, "0", index, content[focus][index + 1],
                     content[focus], DeleteAt(content[focus], index)))

\* the places of the insertion cursor in the input that has the focus
Indexes == IF focus \in FieldSet THEN 0..Len(content[focus]) ELSE {}

KeysNext ==
    \/ \E k \in {keyOp.field, "none"} : Click(k)
    \/ \E index \in Indexes : \E char \in Chars : Insert(index, char)
    \/ \E index \in Indexes : Delete(index)

SpecKeys == KeysInit /\ [][KeysNext]_vars

(***************************************************************************)
(* application.py and mainmenu.py: login, start and the main menu          *)
(***************************************************************************)
\* the 'value' a settings document gives for a setting
DocValues == {MkBool(TRUE), MkBool(FALSE), MkStr(tYes), MkInt(0), MkStr(tX)}

\* the settings documents the application is started on
Documents ==
    {NoDocument, BadDocument} \cup
    {Document(values) : values \in [SettingKeys -> DocValues \cup {Absent}]}

\* the names and passwords typed into the login dialog
UserNames == {"abq", "ABQ", ""}
Passwords == {"Flowers", "flowers", ""}

\* a login that looks at the name alone
SimpleLoginNameOnly(username, password) == username = "abq"

\* Application._simple_login
SimpleLogin(username, password) == username = "abq" /\ password = "Flowers"

\* MainMenu.__init__: the virtual event each command of the File menu generates
MenuSequence ==
    [label \in {"Select file...", "Quit"} |->
        IF label = "Select file..." THEN "<<FileSelect>>" ELSE "<<FileQuit>>"]

\* Application.__init__: event_callbacks, the callback bound to each sequence
EventCallbacks ==
    [sequence \in {"<<FileSelect>>", "<<FileQUit>>", "<<ShowRecordlist>>",
                   "<<NewRecord>>"} |->
        CASE sequence = "<<FileSelect>>" -> "_on_file_select"
          [] sequence = "<<FileQUit>>" -> "quit"
          [] sequence = "<<ShowRecordlist>>" -> "_show_recordlist"
          [] sequence = "<<NewRecord>>" -> "_new_record"]

\* MainMenu._event: event_generate on the root window runs the callback
\* bound to that very sequence, if there is one
Bound(sequence) ==
    IF sequence \in DOMAIN EventCallbacks THEN EventCallbacks[sequence]
    ELSE "none"

\* Application._load_settings: a variable of the tagged type for each
\* setting, made with the value of the settings model
LoadedVariables(values) == [k \in SettingKeys |-> BooleanVar(values[k])]

\* Application.__init__ after the login: the store, the settings model,
\* _load_settings, and then self.settings made anew, of two BooleanVar()
\* that hold False and carry no trace.  An error raised on the way ends
\* __init__ there.
Started(denied, loaded, made) ==
    LET err == IF denied THEN "PermissionError"
               ELSE IF loaded.err # "" THEN loaded.err
               ELSE IF \E k \in SettingKeys : made[k].err # "" THEN "TclError"
               ELSE ""
    IN [err |-> err,
        store |-> IF denied THEN "denied" ELSE "ready",
        fields |-> IF denied THEN SettingDefaults ELSE loaded.values,
        settings |-> [k \in SettingKeys |-> BooleanVar(PyNone).val],
        traced |-> FALSE]

\* Application._save_settings, the write trace of the variables that
\* _load_settings made: every variable is set in the model, then saved
SaveSettings(values, variables) ==
    SettingsSave([k \in SettingKeys |->
                    SettingsSet(values, k, MkBool(variables[k])).values[k]])

\* the files offered in the file dialog, and no choice (the dialog cancelled)
NoChoice == [chosen |-> FALSE]
Choices ==
    {NoChoice,
     [chosen |-> TRUE, file |-> NoFile, parent |-> TRUE, writable |-> FALSE],
     [chosen |-> TRUE, file |-> EmptyFile, parent |-> TRUE, writable |-> TRUE],
     [chosen |-> TRUE, file |-> EmptyFile, parent |-> TRUE, writable |-> FALSE]}

\* Application._on_file_select: a store on the file chosen, unless nothing
\* was chosen or CSVModel raises PermissionError
FileSelected(choice, now) ==
    IF choice.chosen /\
       ~PermissionDenied(choice.file.exists, choice.parent, choice.writable)
    THEN [file |-> choice.file, parent |-> choice.parent,
          writable |-> choice.writable, store |-> "ready"]
    ELSE now

\* the login dialog as Application.__init__ first shows it
AtLogin == [phase |-> "login", error |-> "", traced |-> FALSE]

SessionInit ==
    /\ file \in {NoFile, EmptyFile}
    /\ parentWritable \in BOOLEAN
    /\ fileWritable = file.exists
    /\ store = "unconstructed"
    /\ lastOp = NoCall
    /\ track = Untracked
    /\ content = InitialText
    /\ error = [k \in FieldSet |-> NoError]
    /\ disabled = {}
    /\ focus = "none"
    /\ recordsSaved = 0
    /\ settings = [k \in SettingKeys |-> FALSE]
    /\ appOp = NoEvent
    /\ keyOp = NoKey
    /\ limits = FieldRange
    /\ document \in Documents
    /\ fields = SettingDefaults
    /\ session = AtLogin
    /\ sessionOp = NoCommand

\* Application._show_login: the dialog is closed with Login; a name and
\* password that fail open it again with the error, the right ones let
\* __init__ go on
Login(username, password) ==
    /\ session.phase = "login"
    /\ sessionOp' = [op |-> "login", username |-> username,
                     password |-> password, shown |-> session.error]
    /\ IF SimpleLogin(username, password)
       THEN LET start == Started(PermissionDenied(file.exists, parentWritable,
                                                   fileWritable),
                                 SettingsLoad(document, fields),
                                 LoadedVariables(SettingsLoad(document,
                                                              fields).values))
            IN /\ store' = start.store
               /\ fields' = start.fields
               /\ settings' = start.settings
               /\ session' = [phase |-> IF start.err = "" THEN "running"
                                        ELSE "failed",
                              error |-> session.error,
                              traced |-> start.traced]
       ELSE /\ session' = [session EXCEPT !.error = "Login Failed"]
            /\ UNCHANGED <<store, fields, settings>>
    /\ UNCHANGED <<file, parentWritable, fileWritable, lastOp, track, content,
                    error, disabled, focus, recordsSaved, appOp, keyVars,
                    document>>

\* the dialog is closed with Cancel or Escape: no result, and __init__
\* destroys the application and returns
CancelLogin ==
    /\ session.phase = "login"
    /\ session' = [session EXCEPT !.phase = "destroyed"]
    /\ sessionOp' = [op |-> "cancel", shown |-> session.error]
    /\ UNCHANGED <<storeVars, formVars, keyVars, document, fields>>

\* a checkbutton of the Options menu writes its variable; a trace on the
\* variable runs _save_settings
ToggleSetting(key) ==
    /\ session.phase = "running"
    /\ settings' = [settings EXCEPT ![key] = ~settings[key]]
    /\ sessionOp' = [op |-> "toggle", key |-> key]
    /\ appOp' = NoEvent
    /\ IF session.traced
       THEN /\ document' = SaveSettings(fields, settings')
            /\ fields' = document'.values
       ELSE UNCHANGED <<document, fields>>
    /\ UNCHANGED <<storeVars, content, error, disabled, focus, recordsSaved,
                    keyVars, session>>

\* a command of the File menu generates its virtual event
MenuCommand(label, choice) ==
    /\ session.phase = "running"
    /\ sessionOp' = [op |-> "menu", label |-> label,
                     sequence |-> MenuSequence[label],
                     callback |-> Bound(MenuSequence[label]),
                     choice |-> choice]
    /\ LET selected ==
             IF Bound(MenuSequence[label]) = "_on_file_select"
             THEN FileSelected(choice, [file |-> file,
                                        parent |-> parentWritable,
                                        writable |-> fileWritable,
                                        store |-> store])
             ELSE [file |-> file, parent |-> parentWritable,
                   writable |-> fileWritable, store |-> store]
       IN /\ file' = selected.file
          /\ parentWritable' = selected.parent
          /\ fileWritable' = selected.writable
          /\ store' = selected.store
    /\ session' = IF Bound(MenuSequence[label]) = "quit"
                  THEN [session EXCEPT !.phase = "ended"]
                  ELSE session
    /\ UNCHANGED <<lastOp, track, formVars, keyVars, document, fields>>

SessionNext ==
    \/ \E username \in UserNames : \E password \in Passwords :
          Login(username, password)
    \/ CancelLogin
    \/ \E key \in SettingKeys : ToggleSetting(key)
    \/ \E choice \in Choices : MenuCommand("Select file...", choice)
    \/ MenuCommand("Quit", NoChoice)

SpecSession == SessionInit /\ [][SessionNext]_vars

(***************************************************************************)
(* The calls of SettingsModel                                              *)
(***************************************************************************)
\* the keys and values set() is called with
SetKeys == SettingKeys \cup {"theme"}
SetValues == {MkBool(TRUE), MkBool(FALSE), MkInt(1), MkStr(tTRUE), PyNone,
              MkFloat(100)}

\* the class as it is imported, before any instance is made
SettingsInit ==
    /\ file = NoFile
    /\ parentWritable = TRUE
    /\ fileWritable = FALSE
    /\ store = "unconstructed"
    /\ lastOp = NoCall
    /\ track = Untracked
    /\ content = InitialText
    /\ error = [k \in FieldSet |-> NoError]
    /\ disabled = {}
    /\ focus = "none"
    /\ recordsSaved = 0
    /\ settings = [k \in SettingKeys |-> FALSE]
    /\ appOp = NoEvent
    /\ keyOp = NoKey
    /\ limits = FieldRange
    /\ document \in Documents
    /\ fields = SettingDefaults
    /\ session = AtLogin
    /\ sessionOp = NoCommand

\* SettingsModel() and load()
LoadCall ==
    /\ fields' = SettingsLoad(document, fields).values
    /\ sessionOp' = [op |-> "load", err |-> SettingsLoad(document, fields).err]
    /\ UNCHANGED <<storeVars, formVars, keyVars, document, session>>

\* set(key, value)
SetCall(key, value) ==
    /\ fields' = SettingsSet(fields, key, value).values
    /\ sessionOp' = [op |-> "set", key |-> key, value |-> value,
                     err |-> SettingsSet(fields, key, value).err]
    /\ UNCHANGED <<storeVars, formVars, keyVars, document, session>>

\* save()
SaveCall ==
    /\ document' = SettingsSave(fields)
    /\ sessionOp' = [op |-> "save", err |-> ""]
    /\ UNCHANGED <<storeVars, formVars, keyVars, fields, session>>

SettingsNext ==
    \/ LoadCall
    \/ \E key \in SetKeys : \E value \in SetValues : SetCall(key, value)
    \/ SaveCall

SpecSettings == SettingsInit /\ [][SettingsNext]_vars

(***************************************************************************)
(* The form, its reset and the Options menu                                *)
(***************************************************************************)
\* what is chosen in the inputs a reset can carry over
SheetTexts ==
    [k \in {"Time", "Technician", "Lab", "Plot"} |->
        CASE k = "Time" -> {<<"8", ":", "0", "0">>}
          [] k = "Technician" -> {tX}
          [] k = "Lab" -> {<<"A">>}
          [] k = "Plot" -> {<<"3">>, <<"2", "0">>}]

TypeSheet(text) ==
    /\ focus \in DOMAIN SheetTexts
    /\ text \in SheetTexts[focus]
    /\ Typed(text)

ResetNext ==
    \/ \E k \in DOMAIN SheetTexts : Click(k)
    \/ \E text \in UNION {SheetTexts[k] : k \in DOMAIN SheetTexts} :
          TypeSheet(text)
    \/ \E key \in SettingKeys : ToggleSetting(key)
    \/ Reset

SpecReset == AppInit /\ [][ResetNext]_vars

(***************************************************************************)
(* Properties of the record store (checked under SpecStore)                *)
(***************************************************************************)
\* a text compared case-insensitively with a lower-case word
SameIgnoringCase(text, word) ==
    /\ Len(text) = Len(word)
    /\ \A i \in 1..Len(word) :
          \/ text[i] = word[i]
          \/ \E j \in 1..Len(Upper) : Lowers[j] = word[i] /\ Upper[j] = text[i]

Truthy(text) ==
    \/ SameIgnoringCase(text, <<"t", "r", "u", "e">>)
    \/ SameIgnoringCase(text, <<"y", "e", "s">>)
    \/ SameIgnoringCase(text, <<"1">>)

\* the text csv writes for the value a record gives a key
WrittenText(record, k) ==
    IF k \in DOMAIN record THEN PyStr(record[k]) ELSE <<>>

\* a record as it is read back after being written: every canonical key,
\* booleans for the boolean-typed keys, the written text (carriage returns
\* read as line feeds) for the others
ReadBack(record) ==
    [k \in FieldSet |->
        IF k \in BoolFields THEN MkBool(Truthy(WrittenText(record, k)))
        ELSE MkStr(UniversalNewlines(WrittenText(record, k)))]

\* the record itself, with its boolean-typed fields as actual booleans
WithBooleans(record) ==
    [k \in DOMAIN record |->
        IF k \in BoolFields THEN MkBool(Truthy(WrittenText(record, k)))
        ELSE record[k]]

\* the store was constructed on a missing file, exactly one record was
\* appended and read_all has just returned
AppendedThenRead ==
    /\ lastOp.op = "read_all"
    /\ track.fresh /\ track.history = "appends"
    /\ Len(track.abstract) = 1

\* C1 as stated: on a store whose file did not exist, append_or_replace(R)
\* followed by read_all() returns exactly [R], the boolean-typed fields as
\* actual booleans
C1_RoundTripExact ==
    AppendedThenRead =>
        lastOp.err = "" /\ lastOp.val = <<WithBooleans(track.abstract[1])>>

\* C1 (amended): on a store whose file did not exist, append_or_replace(R)
\* followed by read_all() returns exactly one record; it holds every
\* canonical key, an actual boolean for each boolean-typed key (true for the
\* written texts "TRUE", "Yes" and "1") and, for every other key, the text
\* written for R's value (str(value), empty for None or a missing key) with
\* carriage returns read as line feeds
C1_RoundTrip ==
    AppendedThenRead =>
        /\ lastOp.err = ""
        /\ lastOp.val = <<ReadBack(track.abstract[1])>>
        /\ track.abstract[1]["Equipment Fault"] \in
              {MkStr(tTRUE), MkStr(tYes), MkStr(tOne)}
           => lastOp.val[1]["Equipment Fault"] = MkBool(TRUE)

C1_Witness ==
    /\ AppendedThenRead
    /\ track.abstract = <<TextRecord(tTRUE)>>
    /\ lastOp.val = <<[TextRecord(tTRUE) EXCEPT
                         !["Equipment Fault"] = MkBool(TRUE)]>>

\* the rows of the file that hold cells (blank lines hold none)
StoredRows(f) == SelectSeq(f.rows, LAMBDA r : r # <<>>)

\* the column a key is read from: the last one of that name
Column(header, k) ==
    CHOOSE i \in 1..Len(header) :
        header[i] = k /\ \A j \in (i + 1)..Len(header) : header[j] # k

\* the row csv writes for a record
WrittenRow(record) == [j \in 1..Len(Fields) |-> WrittenText(record, Fields[j])]

\* C2 as stated: on a store holding n records, append_or_replace(R2, p) with
\* 0 <= p < n (R2 holding canonical keys only) followed by read_all()
\* returns as many records as before, R2 (as it is read back) at index p and
\* at every other index the record read_all() returned there before
C2_ReplaceKeepsOthers ==
    [][\A data \in ReplaceRecords : \A p \in Positions(file) :
          (/\ ReplaceRecord(data, p)
           /\ DOMAIN data \subseteq FieldSet
           /\ GetAllRecords(file).err = ""
           /\ 0 <= p /\ p < Len(GetAllRecords(file).val))
          => /\ lastOp'.err = ""
             /\ GetAllRecords(file').err = ""
             /\ Len(GetAllRecords(file').val) = Len(GetAllRecords(file).val)
             /\ GetAllRecords(file').val[p + 1] = ReadBack(data)
             /\ \A i \in 1..Len(GetAllRecords(file).val) :
                   i # p + 1 =>
                     GetAllRecords(file').val[i] = GetAllRecords(file).val[i]
      ]_vars

\* on a store constructed on a missing file where every save was an append
\* that succeeded: one header row, then the appended records in order
HeaderThenAppended ==
    (track.fresh /\ track.history = "appends" /\ file.exists) =>
        /\ file.head = <<Fields>>
        /\ file.rows = [i \in 1..Len(track.abstract) |->
                           WrittenRow(track.abstract[i])]

\* C3: an append writes the header row first exactly when the file did not
\* exist before the call; an append that succeeds adds exactly one row at
\* the end and leaves the earlier rows unchanged; after any sequence of
\* appends starting from a missing file the file holds one header row
\* followed by the records in append order
C3_AppendAddsOneRow ==
    [][\A data \in InputRecords :
          AppendRecord(data) =>
            /\ ~file.exists <=> (file.head = <<>> /\ file'.head = <<Fields>>)
            /\ lastOp'.err = "" =>
                  IF file.exists /\ file.head = <<>>
                  THEN Len(file'.head) = 1 /\ file'.rows = file.rows
                  ELSE /\ file'.rows = Append(file.rows, WrittenRow(data))
                       /\ file.exists => file'.head = file.head
            /\ HeaderThenAppended'
      ]_vars

C3_Witness ==
    /\ lastOp.op = "append" /\ lastOp.err = ""
    /\ track.fresh /\ track.history = "appends"
    /\ Len(track.abstract) = 2
    /\ file.head = <<Fields>>
    /\ file.rows = <<WrittenRow(track.abstract[1]),
                     WrittenRow(track.abstract[2])>>

\* C4: read_all() on a store whose file does not exist returns the empty
\* sequence, raises nothing and does not create the file
C4_ReadAllMissingFile ==
    [][(lastOp'.op = "read_all" /\ ~file.exists) =>
          /\ lastOp'.err = ""
          /\ lastOp'.val = <<>>
          /\ file' = file
      ]_vars

C4_Witness ==
    /\ lastOp.op = "read_all"
    /\ ~file.exists
    /\ lastOp.err = "" /\ lastOp.val = <<>>

\* C5: read_all() raises the corrupt-store error exactly when the file
\* exists and its header row lacks a canonical key; a header that holds every
\* canonical key, in any order and with more columns, is not rejected
C5_CorruptExactlyWhenKeyMissing ==
    lastOp.op = "read_all" =>
        (lastOp.err = "Exception" <=>
            /\ file.exists
            /\ file.head # <<>>
            /\ \E k \in FieldSet : \A i \in 1..Len(file.head[1]) :
                  file.head[1][i] # k)

C5_Witness ==
    /\ lastOp.op = "read_all"
    /\ lastOp.err = "Exception"
    /\ file.head = <<HeaderWithout("Plot")>>

\* C6 as stated: in every record read_all() returns, a boolean-typed field
\* is true exactly when its stored text is "true", "yes" or "1" in any
\* case, and every other field holds its stored text unchanged
C6_StoredTextUnchanged ==
    (lastOp.op = "read_all" /\ lastOp.err = "" /\ file.exists) =>
        /\ Len(lastOp.val) = Len(StoredRows(file))
        /\ \A i \in 1..Len(lastOp.val) : \A k \in FieldSet :
              Column(file.head[1], k) <= Len(StoredRows(file)[i]) =>
                lastOp.val[i][k] =
                  IF k \in BoolFields
                  THEN MkBool(Truthy(StoredRows(file)[i][Column(file.head[1], k)]))
                  ELSE MkStr(StoredRows(file)[i][Column(file.head[1], k)])

\* C6 (amended): in every record read_all() returns, a boolean-typed field
\* is true exactly when its stored text is "true", "yes" or "1" in any
\* case, false otherwise (the empty text included), and every other field
\* holds its stored text with "\r\n" and "\r" read as "\n"
C6_BooleansNormalised ==
    (lastOp.op = "read_all" /\ lastOp.err = "" /\ file.exists) =>
        /\ Len(lastOp.val) = Len(StoredRows(file))
        /\ \A i \in 1..Len(lastOp.val) : \A k \in FieldSet :
              Column(file.head[1], k) <= Len(StoredRows(file)[i]) =>
                lastOp.val[i][k] =
                  IF k \in BoolFields
                  THEN MkBool(Truthy(StoredRows(file)[i][Column(file.head[1], k)]))
                  ELSE MkStr(UniversalNewlines(
                          StoredRows(file)[i][Column(file.head[1], k)]))

C6_Witness ==
    /\ lastOp.op = "read_all" /\ lastOp.err = ""
    /\ file.head = <<Fields>>
    /\ Len(lastOp.val) = 2
    /\ StoredRows(file)[1][10] = tYes
    /\ lastOp.val[1]["Equipment Fault"] = MkBool(TRUE)
    /\ StoredRows(file)[2][10] = <<"F", "a", "l", "s", "e">>
    /\ lastOp.val[2]["Equipment Fault"] = MkBool(FALSE)
    /\ StoredRows(file)[2][17] = <<"a", "\r">>
    /\ lastOp.val[2]["Notes"] = MkStr(<<"a", "\n">>)

\* C7: read_one(p) returns what indexing read_all()'s result at p returns
\* for every position inside the store, raises IndexError for every
\* position beyond the record count, and raises what read_all() raises
C7_ReadOneIndexesReadAll ==
    (lastOp.op = "read_one" /\ lastOp.rownum.v >= 0) =>
        IF GetAllRecords(file).err # ""
        THEN lastOp.err = GetAllRecords(file).err
        ELSE IF lastOp.rownum.v < Len(GetAllRecords(file).val)
        THEN /\ lastOp.err = ""
             /\ lastOp.val = GetAllRecords(file).val[lastOp.rownum.v + 1]
        ELSE lastOp.err = "IndexError"

C7_Witness ==
    /\ lastOp.op = "read_one" /\ lastOp.rownum.v = 1
    /\ lastOp.err = ""
    /\ Len(GetAllRecords(file).val) = 2
    /\ lastOp.val = GetAllRecords(file).val[2]
    /\ lastOp.val # GetAllRecords(file).val[1]

\* C8: constructing the store raises the permission error exactly when the
\* file does not exist and its parent directory is not writable, or the file
\* exists and is not writable; in every other case construction succeeds;
\* it comes before any read or write and touches no file
C8_ConstructionPermission ==
    [][lastOp'.op = "construct" =>
          /\ lastOp.op = "none"
          /\ file' = file
          /\ lastOp'.err = "PermissionError" <=>
                \/ ~file.exists /\ ~parentWritable
                \/ file.exists /\ ~fileWritable
          /\ lastOp'.err \in {"", "PermissionError"}
          /\ store' = IF lastOp'.err = "" THEN "ready" ELSE "denied"
      ]_vars

C8_Witness ==
    /\ lastOp.op = "construct"
    /\ lastOp.err = "PermissionError"
    /\ file.exists /\ ~fileWritable /\ parentWritable

(***************************************************************************)
(* Properties of the form and the application (checked under SpecApp)      *)
(***************************************************************************)
\* the fields whose focus-out rule fails on what they hold: the enabled
\* inputs that have a rule and whose text breaks it
InError ==
    {k \in FieldSet :
        /\ HasTrigger(k)
        /\ k \notin disabled
        /\ FocusoutError(k, content[k]) # NoError}

\* a save step with the fields inError before it
SaveBlockedOnErrors(inError) ==
    /\ (appOp'.op = "save" /\ inError # {}) =>
          /\ appOp'.outcome = "blocked"
          /\ file' = file
          /\ recordsSaved' = recordsSaved
          /\ content' = content /\ disabled' = disabled /\ focus' = focus
    /\ (file' # file \/ recordsSaved' # recordsSaved) =>
          /\ appOp'.op = "save"
          /\ inError = {}
          /\ DOMAIN appOp'.errors = {}

\* C9: a save fired while whole-form validation finds a field in error is
\* blocked: the file is not written, the count of saved records does not
\* change and the form is not reset; the file is written (and the count
\* goes up) only by a save whose whole-form validation found nothing
C9_SaveBlockedOnErrors == [][SaveBlockedOnErrors(InError)]_vars

C9_Witness ==
    /\ appOp.op = "save" /\ appOp.outcome = "blocked"
    /\ DOMAIN appOp.errors # {}
    /\ recordsSaved = 1
    /\ Len(file.rows) = 1

\* what a save step reports, with the fields inError before it
GetErrorsExact(inError) ==
    /\ DOMAIN appOp'.errors = inError
    /\ \A k \in inError : appOp'.errors[k] = FocusoutError(k, content[k])
    /\ appOp'.outcome = "blocked" <=> inError # {}
    /\ appOp'.outcome = "blocked" =>
          \A k \in FieldSet :
              error'[k] = IF k \in inError THEN appOp'.errors[k] ELSE NoError
    /\ content["Technician"] = <<>> =>
          /\ "Technician" \in DOMAIN appOp'.errors
          /\ appOp'.errors["Technician"].msg = "A value is required"
    /\ content["Date"] = tBadDate =>
          /\ "Date" \in DOMAIN appOp'.errors
          /\ appOp'.errors["Date"].msg = "Invalid date"
    /\ content["Time"] # <<>> => "Time" \notin DOMAIN appOp'.errors

\* C10: get_errors() runs the focus-out rule of every field again,
\* whichever input has the focus, and returns a mapping whose keys are
\* exactly the fields in error after that, each with its message; the
\* mapping is empty exactly when no field is in error
C10_GetErrorsExact ==
    [][appOp'.op = "save" => GetErrorsExact(InError)]_vars

C10_Witness ==
    /\ appOp.op = "save" /\ appOp.outcome = "blocked"
    /\ focus = "Seed Sample"
    /\ content["Date"] = tBadDate
    /\ content["Time"] # <<>>
    /\ error["Date"] = Message("Invalid date", <<>>)
    /\ DOMAIN appOp.errors =
          {"Date", "Technician", "Lab", "Seed Sample", "Humidity", "Temperature"}
    /\ appOp.errors["Seed Sample"] = Message("A value is required", <<>>)
    /\ appOp.errors["Humidity"] =
          Message("Value is too low (min ", <<"0", ".", "5">>)

(***************************************************************************)
(* The three height inputs                                                 *)
(***************************************************************************)
HeightFields == {"Min Height", "Max Height", "Med Height"}

\* the texts the user leaves in a height input: "08" and "010" are typed
\* around the zeros of the "0.0" it is created with
HeightTexts == {<<"3">>, <<"0", "8">>, <<"0", "1", "0">>}

\* the user's keys leave a text in the height input that has the focus;
\* the key rule lets no insertion go above the maximum
TypeHeight(text) ==
    /\ focus \in HeightFields
    /\ ParseDecimal(text).err = "" =>
          ParseDecimal(text).val <= limits[focus].max
    /\ Typed(text)

HeightsNext ==
    \/ \E k \in HeightFields \cup {"none"} : Click(k)
    \/ \E text \in HeightTexts : TypeHeight(text)

SpecHeights == AppInit /\ [][HeightsNext]_vars

(***************************************************************************)
(* The rules of one input                                                  *)
(***************************************************************************)
\* the messages of the error kinds
MissingValue == "A value is required"
InvalidDate == "Invalid date"
InvalidNumber == "Invalid number string: "
TooLow == "Value is too low (min "
TooHigh == "Value is too high (max "

\* the focus leaves the input k
Leaves(k) == focus = k /\ focus' # k

\* C11: when the focus leaves the date input, its error is MissingValue for
\* an empty text, InvalidDate for a text that is no date of the calendar
\* ("2023-02-30"), and empty otherwise ("2023-02-28")
C11_DateFocusout ==
    [][Leaves("Date") =>
         /\ error'["Date"].msg =
              (IF content["Date"] = <<>> THEN MissingValue
               ELSE IF ~StrptimeOk(content["Date"]) THEN InvalidDate
               ELSE "")
         /\ content["Date"] = <<"2", "0", "2", "3", "-", "0", "2", "-", "3", "0">> => error'["Date"].msg = InvalidDate
         /\ content["Date"] = <<"2", "0", "2", "3", "-", "0", "2", "-", "2", "8">> => error'["Date"].msg = ""]_vars

DigitChars == {"0", "1", "2", "3", "4", "5", "6", "7", "8", "9"}

\* the last event was the key action ("1" inserts, "0" deletes) of an
\* input of the class widget
LastKey(widget, action) ==
    /\ keyOp.op = "key"
    /\ Widget[keyOp.field] = widget
    /\ keyOp.action = action

\* C12: a character typed into the date input is accepted exactly when it
\* is a digit at place 0-3, 5-6 or 8-9 or a hyphen at place 4 or 7 (so
\* never at place 10 or later); a deletion is always accepted; an accepted
\* edit is the new text and a refused one leaves the text
C12_DateKeys ==
    /\ LastKey("DateEntry", "1") =>
         /\ keyOp.valid <=>
              \/ keyOp.char \in DigitChars
                   /\ keyOp.index \in {0, 1, 2, 3, 5, 6, 8, 9}
              \/ keyOp.char = "-" /\ keyOp.index \in {4, 7}
         /\ keyOp.index >= 10 => ~keyOp.valid
    /\ LastKey("DateEntry", "0") => keyOp.valid
    /\ keyOp.op = "key" /\ keyOp.field = "Date" =>
         content["Date"] = IF keyOp.valid THEN keyOp.proposed
                           ELSE keyOp.current

\* a digit typed after the ten characters of a date was refused
C12_Witness ==
    /\ LastKey("DateEntry", "1")
    /\ keyOp.index = 10 /\ keyOp.char = "8" /\ ~keyOp.valid
    /\ content["Date"] = <<"2", "0", "2", "3", "-", "0", "2", "-", "2", "8">>

Spinboxes == {k \in FieldSet : Widget[k] = "ValidatedSpinbox"}

\* the kind of error the claim gives a text of a numeric input with the
\* limits range
NumberKind(text, range) ==
    IF ParseDecimal(text).err # "" THEN InvalidNumber
    ELSE IF ParseDecimal(text).val < range.min THEN TooLow
    ELSE IF ParseDecimal(text).val > range.max THEN TooHigh
    ELSE ""

\* C13: when the focus leaves a numeric input, its error is InvalidNumber
\* for a text that is no number (the empty text too), TooLow below the
\* minimum, TooHigh above the maximum and empty within them; with the
\* maximum 52.0, "52.01" is TooHigh and "52.00" has no error
C13_NumberFocusout ==
    [][\A k \in Spinboxes : Leaves(k) =>
         /\ error'[k].msg = NumberKind(content[k], limits[k])
         /\ (k = "Humidity" /\ content[k] = <<"5", "2", ".", "0", "1">>) => error'[k].msg = TooHigh
         /\ (k = "Humidity" /\ content[k] = <<"5", "2", ".", "0", "0">>) => error'[k] = NoError]_vars

\* the focus has left the Humidity input holding "52.01"
C13_Witness ==
    /\ focus = "none"
    /\ content["Humidity"] = <<"5", "2", ".", "0", "1">>
    /\ error["Humidity"] = Message(TooHigh, <<"5", "2", ".", "0">>)
    /\ limits["Humidity"].max = 5200

\* the digits a numeric input may hold after the point
Places(k) == IF FieldType[k] = "decimal" THEN 2 ELSE 0

\* the proposed text is a number above the maximum or finer than the
\* increment
TooBigOrFine(k, proposed, range) ==
    /\ DecimalParts(proposed).err = ""
    /\ \/ DecimalParts(proposed).val.num * 100 >
            range.max * Pow10(DecimalParts(proposed).val.places)
       \/ DecimalParts(proposed).val.places > Places(k)

\* the character is of a kind the numeric input takes
KindTaken(k, char, index, current, range) ==
    \/ char \in DigitChars
    \/ char = "-" /\ index = 0 /\ range.min < 0
    \/ char = "." /\ Places(k) > 0 /\ \A i \in 1..Len(current) : current[i] # "."

\* C14: a character typed into a numeric input is refused for its kind
\* exactly when it is no digit, no '-' at place 0 of an input with a
\* negative minimum and no first '.' of an input with a fractional
\* increment: a character of another kind is refused, and a character of
\* these kinds is refused only for the number the text would be
C14_SpinboxCharKinds ==
    LastKey("ValidatedSpinbox", "1") =>
       /\ ~KindTaken(keyOp.field, keyOp.char, keyOp.index, keyOp.current,
                     limits[keyOp.field]) => ~keyOp.valid
       /\ (/\ KindTaken(keyOp.field, keyOp.char, keyOp.index, keyOp.current,
                        limits[keyOp.field])
           /\ ~keyOp.valid)
          => TooBigOrFine(keyOp.field, keyOp.proposed, limits[keyOp.field])

\* C15: an insertion that would make the text of a numeric input a number
\* above the maximum, or with more digits after the point than the
\* increment has, is refused and leaves the text; an insertion of one of
\* the digits the input takes is accepted otherwise, below the minimum
\* too; a deletion is always accepted
C15_SpinboxKeyLimits ==
    /\ LastKey("ValidatedSpinbox", "1") =>
         /\ TooBigOrFine(keyOp.field, keyOp.proposed, limits[keyOp.field])
              => ~keyOp.valid /\ content[keyOp.field] = keyOp.current
         /\ (/\ keyOp.char \in DigitChars \ {"0"}
             /\ ~TooBigOrFine(keyOp.field, keyOp.proposed,
                              limits[keyOp.field]))
              => keyOp.valid /\ content[keyOp.field] = keyOp.proposed
    /\ LastKey("ValidatedSpinbox", "0") =>
         keyOp.valid /\ content[keyOp.field] = keyOp.proposed

\* a third digit after the point was refused in the Humidity input, after
\* a digit that left the value below the minimum was accepted
C15_Witness ==
    /\ LastKey("ValidatedSpinbox", "1")
    /\ keyOp.field = "Humidity"
    /\ keyOp.current = <<"0", ".", "0", "1">> /\ keyOp.proposed = <<"0", ".", "0", "1", "1">>
    /\ ~keyOp.valid
    /\ content["Humidity"] = <<"0", ".", "0", "1">>

\* the allowed values the proposed text is a prefix of, whatever the case
Candidates(values, proposed) ==
    {i \in 1..Len(values) :
        /\ Len(proposed) <= Len(values[i])
        /\ SameIgnoringCase(SubSeq(values[i], 1, Len(proposed)), proposed)}

ABC == <<<<"A">>, <<"B">>, <<"C">>>>

\* C16: a character typed into a choice-list input is refused and leaves
\* the text when the proposed text is the prefix of no allowed value
\* ("d" with A, B, C), is refused and the text set to the value when it is
\* the prefix of one only, and is accepted when it is the prefix of
\* several; the case of the letters does not count
C16_ComboKeys ==
    /\ LastKey("ValidatedCombobox", "1") =>
         LET n == Cardinality(Candidates(Values[keyOp.field], keyOp.proposed))
         IN /\ n = 0 => ~keyOp.valid
                        /\ content[keyOp.field] = keyOp.current
            /\ n = 1 => ~keyOp.valid
                        /\ \E i \in Candidates(Values[keyOp.field],
                                               keyOp.proposed) :
                              content[keyOp.field] = Values[keyOp.field][i]
            /\ n >= 2 => keyOp.valid
                         /\ content[keyOp.field] = keyOp.proposed
    /\ ComboKey(<<"d">>, "1", ABC) = Verdict(FALSE, Kept, "")
    /\ ComboKey(<<"b">>, "1", ABC) = Verdict(FALSE, <<"B">>, "")

\* "12" typed into the Time input left "12:00" there
C16_Witness ==
    /\ LastKey("ValidatedCombobox", "1")
    /\ keyOp.field = "Time"
    /\ keyOp.current = <<"1">> /\ keyOp.proposed = <<"1", "2">>
    /\ ~keyOp.valid
    /\ content["Time"] = <<"1", "2", ":", "0", "0">>

\* C17: when the focus leaves the Time input without an error, the input
\* holds one of its allowed values
C17_ComboHoldsAllowedValue ==
    [][Leaves("Time") /\ error'["Time"] = NoError =>
         content'["Time"] \in Range(Values["Time"])]_vars

\* the text without the blanks around it
RECURSIVE Trimmed(_)
Trimmed(text) ==
    IF text = <<>> THEN text
    ELSE IF Head(text) = " " THEN Trimmed(Tail(text))
    ELSE IF text[Len(text)] = " " THEN Trimmed(SubSeq(text, 1, Len(text) - 1))
    ELSE text

\* C18: when the focus leaves a required text input, its error is
\* MissingValue exactly when the text without the blanks around it is
\* empty
C18_RequiredFocusout ==
    [][Leaves("Technician") =>
         (error'["Technician"].msg = MissingValue
            <=> Trimmed(content["Technician"]) = <<>>)
         /\ error'["Technician"].msg \in {MissingValue, ""}]_vars

(***************************************************************************)
(* The fault flag and the linked heights                                   *)
(***************************************************************************)
FaultOn == content["Equipment Fault"] = <<"1">>

\* C19: when the fault flag becomes true, Humidity, Light and Temperature
\* are disabled and their texts and errors empty; while it is true they
\* stay so and a save reports no error for them; when it becomes false
\* again they are enabled and still empty
C19_FaultFlag ==
    [][/\ FaultOn' =>
            \A k \in FaultDisables :
               k \in disabled' /\ content'[k] = <<>> /\ error'[k] = NoError
       /\ (FaultOn /\ appOp'.op = "save") =>
            FaultDisables \cap DOMAIN appOp'.errors = {}
       /\ (FaultOn /\ ~FaultOn') =>
            \A k \in FaultDisables :
               k \notin disabled' /\ content'[k] = <<>>]_vars

\* a save was stopped by the errors of other inputs while the flag was true
C19_Witness ==
    /\ FaultOn
    /\ appOp.op = "save" /\ appOp.outcome = "blocked"
    /\ DOMAIN appOp.errors # {}
    /\ FaultDisables \cap DOMAIN appOp.errors = {}
    /\ FaultDisables \subseteq disabled

\* the number a text is, in hundredths
Number(text) == ParseDecimal(text).val

\* C20: when the focus leaves Min Height without an error, its value is
\* the minimum of Max Height and Med Height from then on; when it leaves
\* Max Height without an error, its value is the maximum of Min Height and
\* Med Height; a value with an error changes no limit; and the focus-out
\* rule of a height works with the limits as they are then
C20_LinkedHeights ==
    [][/\ (Leaves("Min Height") /\ error'["Min Height"] = NoError) =>
            /\ limits'["Max Height"].min = Number(content["Min Height"])
            /\ limits'["Med Height"].min = Number(content["Min Height"])
       /\ (Leaves("Max Height") /\ error'["Max Height"] = NoError) =>
            /\ limits'["Min Height"].max = Number(content["Max Height"])
            /\ limits'["Med Height"].max = Number(content["Max Height"])
       /\ \A k \in HeightFields :
            /\ (Leaves(k) /\ error'[k] # NoError) => limits' = limits
            /\ Leaves(k) => error'[k].msg = NumberKind(content[k], limits[k])
      ]_vars

(***************************************************************************)
(* Properties of key events and error messages (checked under SpecKeys)    *)
(***************************************************************************)
\* the step is a key event
KeyStep == keyOp' # keyOp

\* C21: a key event, accepted or refused, leaves the error message of its
\* input empty, whatever the class of the input; an error message appears
\* or changes only in a step in which the focus leaves the input
C21_KeysSetNoError ==
    [][/\ KeyStep => error'[keyOp'.field].msg = ""
       /\ \A k \in FieldSet :
            error'[k].msg # "" /\ error'[k] # error[k] =>
               ~KeyStep /\ Leaves(k)]_vars

\* a key was refused in an input of each class that refuses keys, and the
\* input shows no error
C21_Witness ==
    /\ keyOp.op = "key" /\ ~keyOp.valid
    /\ keyOp.field \in {"Time", "Humidity"}
    /\ keyOp.current = content[keyOp.field]
    /\ error[keyOp.field] = NoError

(***************************************************************************)
(* Properties of the session (checked under SpecSession)                   *)
(***************************************************************************)
\* the step in which __init__ gets past the login and shows the main window
Starts == session.phase = "login" /\ session'.phase = "running"

\* the step is a change of a setting through the Options menu
SettingChanged == session.phase = "running" /\ settings' # settings

\* C22: the settings the running application uses and shows in its Options
\* menu are the ones loaded from the settings document (the defaults where
\* the document gives none), and every change of a setting through the
\* menu rewrites the document with the new values
C22_SettingsLoadedAndSaved ==
    [][/\ Starts =>
            \A k \in SettingKeys :
               settings'[k] = BooleanVar(SettingsLoad(document,
                                                     SettingDefaults).values[k]).val
       /\ SettingChanged =>
            /\ document'.exists /\ document'.parses
            /\ \A k \in SettingKeys :
                  document'.values[k] = MkBool(settings'[k])]_vars

(***************************************************************************)
(* More properties of the record store (checked under SpecStore)           *)
(***************************************************************************)
\* C23: a save_record or get_all_records call that raises leaves the file
\* as it was before the call
C23_FailedCallKeepsFile ==
    [][(lastOp'.op \in {"append", "replace", "read_all"} /\ lastOp'.err # "")
          => file' = file]_vars

\* the store was constructed on a missing file and every save call since
\* has succeeded
OnlySuccessfulSaves == track.fresh /\ track.history \in {"appends", "saves"}

\* the step is a replace that succeeded, after successful saves only
Replaced ==
    /\ lastOp'.op = "replace" /\ lastOp'.err = ""
    /\ OnlySuccessfulSaves /\ track'.history = "saves"

\* C24 as stated: after successful saves on a store constructed on a
\* missing file, read_all() returns one record per append, in append order,
\* each position holding the record last written to it with its boolean
\* fields as actual booleans; a replace leaves the length and the header
C24_AbstractSequenceExact ==
    [][/\ (lastOp'.op = "read_all" /\ OnlySuccessfulSaves') =>
            /\ lastOp'.err = ""
            /\ lastOp'.val = [i \in 1..Len(track'.abstract) |->
                                WithBooleans(track'.abstract[i])]
       /\ Replaced =>
            /\ Len(file'.rows) = Len(file.rows)
            /\ file'.head = file.head]_vars

\* C24 (amended): after successful saves on a store constructed on a
\* missing file, read_all() returns one record per append, in append order,
\* each position holding what is read back of the record last written to
\* it: an actual boolean for each boolean-typed key and, for every other
\* key, the text written for the value (str(value), empty for None or a
\* missing key) with carriage returns read as line feeds; a replace leaves
\* the length and the header
C24_AbstractSequence ==
    [][/\ (lastOp'.op = "read_all" /\ OnlySuccessfulSaves') =>
            /\ lastOp'.err = ""
            /\ lastOp'.val = [i \in 1..Len(track'.abstract) |->
                                ReadBack(track'.abstract[i])]
       /\ Replaced =>
            /\ Len(file'.rows) = Len(file.rows)
            /\ file'.head = file.head
            /\ file'.head = <<Fields>>]_vars

\* two records were appended, one of them was replaced since, and read_all
\* has returned the two records that were written last
C24_Witness ==
    /\ lastOp.op = "read_all" /\ lastOp.err = ""
    /\ track.fresh /\ track.history = "saves"
    /\ Len(track.abstract) = 2
    /\ track.abstract[1] # track.abstract[2]
    /\ lastOp.val = <<ReadBack(track.abstract[1]), ReadBack(track.abstract[2])>>

(***************************************************************************)
(* More properties of key events (checked under SpecKeys)                  *)
(***************************************************************************)
\* C25: whatever keys are typed into the date input, which starts empty or
\* with the first characters of a date typed before, its text has at most
\* ten characters, digits at the places 0-3, 5-6 and 8-9 and hyphens at
\* the places 4 and 7
C25_DateShape ==
    /\ Len(content["Date"]) <= 10
    /\ \A i \in 1..Len(content["Date"]) :
          IF i - 1 \in {4, 7} THEN content["Date"][i] = "-"
          ELSE content["Date"][i] \in DigitChars

\* the step is an attempt to log in with the name and password given
Attempt == session.phase = "login" /\ sessionOp'.op = "login"

\* nothing of the application behind the login exists
NothingStarted ==
    /\ store = "unconstructed"
    /\ fields = SettingDefaults
    /\ settings = [k \in SettingKeys |-> FALSE]
    /\ session.phase # "running"

\* C26: the store, the settings and the main window come into being only
\* in a login attempt with the name 'abq' and the password 'Flowers';
\* every other attempt, however many came before, leaves the login dialog
\* open with the error 'Login Failed' and nothing started; cancelling the
\* dialog destroys the application and constructs no store
C26_LoginGate ==
    [][/\ session.phase = "login" => NothingStarted
       /\ (NothingStarted /\ ~NothingStarted') =>
            /\ Attempt
            /\ sessionOp'.username = "abq" /\ sessionOp'.password = "Flowers"
       /\ (Attempt /\ ~(sessionOp'.username = "abq" /\
                        sessionOp'.password = "Flowers")) =>
            /\ session'.phase = "login"
            /\ session'.error = "Login Failed"
            /\ NothingStarted'
       /\ (Attempt /\ sessionOp'.username = "abq" /\
           sessionOp'.password = "Flowers") =>
            session'.phase \in {"running", "failed"}
       /\ (session.phase = "login" /\ sessionOp'.op = "cancel") =>
            /\ session'.phase = "destroyed"
            /\ NothingStarted'
            /\ file' = file
       /\ session.phase = "destroyed" => NothingStarted]_vars

\* the main window is shown after a failed attempt and then the right name
\* and password, typed into the dialog that showed the error
C26_Witness ==
    /\ session.phase = "running" /\ store = "ready"
    /\ sessionOp.op = "login" /\ sessionOp.shown = "Login Failed"
    /\ sessionOp.username = "abq" /\ sessionOp.password = "Flowers"

\* the step is a command of the File menu
MenuChosen ==
    session.phase = "running" /\ sessionOp'.op = "menu" /\ sessionOp' # sessionOp

\* C27: every virtual event a command of the File menu generates has a
\* callback bound in the application under the same name: Select file...
\* runs the file-select handler and Quit ends the event loop
C27_MenuEventsBound ==
    [][MenuChosen =>
          /\ sessionOp'.callback # "none"
          /\ sessionOp'.label = "Select file..." =>
                sessionOp'.callback = "_on_file_select"
          /\ sessionOp'.label = "Quit" => session'.phase = "ended"]_vars

(***************************************************************************)
(* Properties of the settings model (checked under SpecSettings)           *)
(***************************************************************************)
\* the step is a call of set
SetStep == sessionOp'.op = "set" /\ <<sessionOp, fields>>' # <<sessionOp, fields>>

\* set stores the value exactly when the key is a setting and the type
\* name of the value is the tag of the setting, and else raises ValueError
\* and leaves every value
SetExact ==
    SetStep =>
       IF /\ sessionOp'.key \in SettingKeys
          /\ TypeName(sessionOp'.value) = SettingType[sessionOp'.key]
       THEN /\ sessionOp'.err = ""
            /\ fields' = [fields EXCEPT ![sessionOp'.key] = sessionOp'.value]
       ELSE /\ sessionOp'.err = "ValueError"
            /\ fields' = fields

\* C28 as stated: set stores the value exactly when the key is known and
\* the value has the tagged type, else it raises ValueError and changes
\* nothing; after any set call every stored value has the tagged type
C28_SetChecksTypeAlways ==
    [][/\ SetExact
       /\ SetStep => \A k \in SettingKeys :
                        TypeName(fields'[k]) = SettingType[k]]_vars

\* C28 (amended): set stores the value exactly when the key is known and
\* the value has the tagged type, else it raises ValueError and changes
\* nothing; after any calls every stored value has the tagged type, or is
\* a value of another type that load took from the settings document
C28_SetChecksType ==
    [][/\ SetExact
       /\ \A k \in SettingKeys :
             \/ TypeName(fields'[k]) = SettingType[k]
             \/ document'.exists /\ document'.values[k] = fields'[k]]_vars

\* set has refused the number 1 for a boolean setting, after it had
\* stored False for it, and False is still there
C28_Witness ==
    /\ sessionOp.op = "set" /\ sessionOp.err = "ValueError"
    /\ sessionOp.key = "autofill date" /\ sessionOp.value = MkInt(1)
    /\ fields["autofill date"] = MkBool(FALSE)
    /\ ~document.exists

(***************************************************************************)
(* More properties of the form (checked under SpecApp)                     *)
(***************************************************************************)
\* the step is a save that got as far as assembling the record
Assembles ==
    /\ appOp'.op = "save" /\ appOp'.outcome # "blocked"
    /\ (recordsSaved' # recordsSaved \/ appOp' # appOp)

\* the record the claim describes: what get() of each variable gives, and
\* the empty text for the three inputs of the equipment when the fault
\* flag is true
Assembled ==
    [k \in FieldSet |->
        IF FaultOn /\ k \in {"Humidity", "Light", "Temperature"}
        THEN MkStr(<<>>)
        ELSE VarGet(VarType[k], content[k]).val]

\* C29: the record assembled for a save holds the empty text for Humidity,
\* Light and Temperature when the fault flag is true, whatever their
\* variables hold (even a text that cannot be read as a number), and the
\* value of the variable for every other field; when the flag is false it
\* holds the value of the variable for every field.  The row the save
\* writes is that record.
C29_FaultBlanksRecord ==
    [][Assembles =>
          IF \E k \in FieldSet :
                /\ ~(FaultOn /\ k \in {"Humidity", "Light", "Temperature"})
                /\ VarGet(VarType[k], content[k]).err # ""
          THEN appOp'.outcome = "ValueError" /\ file' = file
          ELSE /\ file'.head = <<Fields>>
               /\ file'.rows = Append(file.rows, WrittenRow(Assembled))]_vars

\* a record was saved with the fault flag true: its row holds the empty
\* text for the three inputs, which held no number that get() could read
C29_Witness ==
    /\ appOp.op = "save" /\ recordsSaved = 1 /\ Len(file.rows) = 1
    /\ file.rows[1] = [j \in 1..Len(Fields) |->
                          IF Fields[j] \in {"Humidity", "Light", "Temperature"}
                          THEN <<>>
                          ELSE IF Fields[j] = "Equipment Fault"
                          THEN <<"T", "r", "u", "e">>
                          ELSE file.rows[1][j]]

(***************************************************************************)
(* Properties of reset (checked under SpecReset)                           *)
(***************************************************************************)
\* the plots of the list but the last
PlotsWithNext == {i \in 1..(Len(PlotValues) - 1) : PlotValues[i] = content["Plot"]}

\* the sheet data is carried over: 'autofill sheet data' is on and Plot
\* holds a listed plot other than the last
CarriedOver == settings["autofill sheet data"] /\ PlotsWithNext # {}

\* C30: after reset() every boolean field is false and every other field
\* is empty, except that Date holds today's date when 'autofill date' is
\* on, and that Lab, Time and Technician keep their values and Plot
\* becomes the next plot of the list when 'autofill sheet data' is on and
\* Plot held a listed plot other than the last; when Plot was empty or
\* the last plot of the list, reset() raises no error
C30_ResetCarriesOver ==
    [][appOp'.op = "reset" =>
          /\ \A k \in FieldSet :
                content'[k] =
                   CASE k = "Date" /\ settings["autofill date"] -> Today
                     [] k \in {"Lab", "Time", "Technician"} /\ CarriedOver ->
                           content[k]
                     [] k = "Plot" /\ CarriedOver ->
                           PlotValues[(CHOOSE i \in PlotsWithNext : TRUE) + 1]
                     [] OTHER -> IF VarType[k] = "BooleanVar" THEN <<"0">>
                                 ELSE <<>>
          /\ content["Plot"] \in {<<>>, PlotValues[Len(PlotValues)]} =>
                appOp'.outcome = ""]_vars

====
